---- MODULE Spec2Model ----
(***************************************************************************)
(* Model of the LibBot purchase transaction engine                         *)
(* (backend/chatbot/database_tools.py, class ChatbotDatabase).             *)
(*                                                                         *)
(* The record store holds two tables: book_names (title, Qty) and users    *)
(* (user_id, available_credits).  Every call of the engine is a sequence   *)
(* of point reads and point writes against the store; each read or write   *)
(* is one step of the model, so that storage faults can hit any single     *)
(* access and calls of different request handlers can interleave between   *)
(* accesses.  A read answers with rows or with None (execute_query         *)
(* swallows every error); a write returns True, returns False, or lets the *)
(* exception of connection.rollback() escape from execute_non_query's      *)
(* except block.  Each call keeps a log "io" of its storage accesses and a *)
(* snapshot of the store at its start (pre_stock, pre_credits); the call   *)
(* that repeats the one before it also keeps a summary of that call        *)
(* (prev).  None of the three influences the call.                         *)
(*                                                                         *)
(* Spec      one request handler, calls run one after the other.           *)
(* SpecConc  two request handlers, one call each, accesses interleaved.    *)
(***************************************************************************)
EXTENDS Integers, Sequences, FiniteSets, TLC

\* ------------------------------------------------------------------ bounds
MaxStock == 2        \* initial quantity-on-hand of a book is in 0..MaxStock
MaxCreditUnits == 3  \* initial balance is 20*k, k in 0..MaxCreditUnits
MaxQty == 2          \* requested quantities are drawn from -1..MaxQty
MaxLines == 2        \* a multi-item request carries 1..MaxLines line items
MaxCalls == 2        \* engine calls started in one behaviour
MaxFurther == 11     \* rows of the catalog nobody asks to buy

\* ------------------------------------------------------- program constants
UnitPrice == 20      \* "20 credits per book"

\* ------------------------------------------------------------- the catalog
\* Titles are character sequences; rows are numbered in the store's natural
\* (insertion) order, which is the order an unordered SELECT returns them in.
Books == {1, 2}
Title == << <<"a", "b">>, <<"a", "c">> >>

\* the author column of the two rows
Author == << <<"x">>, <<"y">> >>

\* The catalog has further rows, all by one author, which no purchase
\* request matches; they make a search return more rows than are listed.
FurtherBooks == 3..(2 + MaxFurther)
Catalog == Books \cup FurtherBooks
CatalogTitle(b) == IF b \in Books THEN Title[b] ELSE <<"w">>
CatalogAuthor(b) == IF b \in Books THEN Author[b] ELSE <<"v">>

\* Title strings a caller may ask for: a fragment shared by both titles (the
\* lookup answers with the first row), a fragment of the second title only,
\* and a string matching nothing.
RequestTitles == { <<"a">>, <<"c">>, <<"z">> }

Accounts == {1, 2}       \* user ids that have a row in users
UserIds == {1, 2, 3}     \* user id 3 has no account
Procs == {1, 2}          \* request handlers

Quantities == (-1)..MaxQty

\* Line items a multi-item request is made of: a book in the first row, up to
\* MaxQty copies of the second row's book, an unknown title, and a line with
\* quantity 0.
RequestLines ==
    { [title |-> <<"a">>, quantity |-> 1],
      [title |-> <<"c">>, quantity |-> MaxQty],
      [title |-> <<"z">>, quantity |-> 1],
      [title |-> <<"c">>, quantity |-> 0] }
Amounts == {-20, 0, 20}

ReadOutcomes == {"ok", "none"}            \* execute_query: rows, or None
WriteOutcomes == {"ok", "fail", "raise"}  \* execute_non_query: True, False, or the
                                          \* exception of connection.rollback()

VARIABLES stock, credits, pc, call, ncalls, sessions, now, turn, nturns

\* the variables of the dialogue layer
dialogue == <<sessions, now, turn, nturns>>

vars == <<stock, credits, pc, call, ncalls, sessions, now, turn, nturns>>

\* ------------------------------------------------------------------ helpers
NoBook == [title |-> 0, Qty |-> 0]
NoResult == [success |-> FALSE, error |-> "", purchased_books |-> <<>>,
             total_books_purchased |-> 0, total_credits_spent |-> 0,
             remaining_credits |-> 0]

\* what a repeated call remembers of the call before it: whether that call
\* succeeded, whether every storage access of it went well, and the store
\* as it was when that call started
NoSummary == [repeat |-> FALSE, success |-> FALSE, allok |-> FALSE,
              pre_stock |-> <<>>, pre_credits |-> <<>>]

IdleCall == [op |-> "none", user_id |-> 0, book_requests |-> <<>>, amount |-> 0,
             i |-> 0, book |-> NoBook, validated_books |-> <<>>, total_cost |-> 0,
             current_credits |-> 0, purchased_books |-> <<>>, error |-> "",
             result |-> NoResult, io |-> <<>>,
             pre_stock |-> <<>>, pre_credits |-> <<>>, prev |-> NoSummary]

Summary(c) ==
    [repeat |-> TRUE, success |-> c.result.success,
     allok |-> \A k \in DOMAIN c.io : c.io[k].outcome = "ok",
     pre_stock |-> c.pre_stock, pre_credits |-> c.pre_credits]

\* SQL "title LIKE %s%": s occurs somewhere in t.
IsSubstring(s, t) ==
    \E k \in 0..(Len(t) - Len(s)) : SubSeq(t, k + 1, k + Len(s)) = s

Min(S) == CHOOSE x \in S : \A y \in S : x <= y

\* get_book_by_title: first row whose title contains the request, or None.
get_book_by_title(title, outcome) ==
    LET rows == {b \in Books : IsSubstring(title, Title[b])}
    IN  IF outcome = "none" \/ rows = {} THEN NoBook
        ELSE [title |-> Min(rows), Qty |-> stock[Min(rows)]]

\* get_user_credits: the balance, or None (modelled as -1000000) when the
\* read fails or the user id has no row.
None == -1000000
get_user_credits(user_id, outcome) ==
    IF outcome = "none" \/ user_id \notin Accounts THEN None ELSE credits[user_id]

\* a price that charges every copy twice
Cost_Twice(quantity) == 2 * quantity * UnitPrice

\* quantity * 20, the price of a line on both purchase paths
Cost(quantity) == quantity * UnitPrice

\* a stock test that lets every request through
InStock_Unchecked(book, quantity) == TRUE

\* the stock test of both purchase paths: book["Qty"] < quantity rejects
InStock(book, quantity) == ~(book.Qty < quantity)

\* a credit test that also turns away a balance equal to the total cost
CanAfford_Strict(current_credits, total_cost) == current_credits > total_cost

\* the credit test of both purchase paths: current_credits < total_cost rejects
CanAfford(current_credits, total_cost) == ~(current_credits < total_cost)

Fail(msg) == [NoResult EXCEPT !.error = msg]

\* one storage access appended to the call's access log
IO(kind, target, value, outcome, comp) ==
    [kind |-> kind, target |-> target, value |-> value, outcome |-> outcome,
     comp |-> comp]

Return(p, c, result) ==
    /\ pc' = [pc EXCEPT ![p] = "done"]
    /\ call' = [call EXCEPT ![p] = [c EXCEPT !.result = result]]

Goto(p, c, label) ==
    /\ pc' = [pc EXCEPT ![p] = label]
    /\ call' = [call EXCEPT ![p] = c]

\* ================================================================== dialogue
\* The dialogue layer (backend/chatbot/session_manager.py and
\* backend/chatbot/stateful_workflow.py): a table of sessions keyed by user
\* id, and process_message, which handles one message of one user.

\* ---------------------------------------------------------- dialogue bounds
MaxTurns == 2        \* messages handled in one behaviour
MaxTime == 31        \* the clock (in minutes) runs from 0 to MaxTime
MaxHops == 2         \* subordinate nodes the graph runs for one message
MaxPieces == 3       \* pieces a purchase text given to the parsers is made of

\* ------------------------------------------------------- dialogue constants
SessionTimeout == 30 \* is_expired(timeout_minutes = 30)

ChatUsers == {1, 2}  \* user ids that send messages

\* ConversationState
INITIAL == "initial"
WAITING_FOR_SEARCH == "waiting_for_search"
WAITING_FOR_BUY_DETAILS == "waiting_for_buy_details"
WAITING_FOR_RETURN_DETAILS == "waiting_for_return_details"
WAITING_FOR_CREDITS == "waiting_for_credits"
ConversationState ==
    {INITIAL, WAITING_FOR_SEARCH, WAITING_FOR_BUY_DETAILS,
     WAITING_FOR_RETURN_DETAILS, WAITING_FOR_CREDITS}

\* Messages are character sequences.
Messages ==
    { <<"q", "u", "e", "r", "y">>,                                \* query
      <<" ", "B", "u", "y", " ">>,                                \* " Buy "
      <<"b", "u", "y", " ", "c", "r", "e", "d", "i", "t", "s">>,  \* buy credits
      <<"c", ",", "1">>,                                          \* c,1
      <<"z">>,                                                    \* z
      <<"0">>,                                                    \* 0
      <<"2", "0">>,                                               \* 20
      <<"b", "u", "y", " ", "c", ",", "1", " ", "b", "o", "o", "k">>,  \* buy c,1 book
      <<"c", "r", "e", "d", "i", "t", " ", "2", "0">>,            \* credit 20
      <<"b", "u", "y", " ", "z">>,                                \* buy z
      <<" ">> }                                                   \* a blank

\* The second user is there for the session table to hold more than one
\* session: it sends a command or a search term.
OtherMessages ==
    { <<"q", "u", "e", "r", "y">>, <<"c", ",", "1">> }

MessagesOf(user_id) == IF user_id = 1 THEN Messages ELSE OtherMessages

\* The texts of the graph workflow, as the user sends them or as the
\* language model forwards them: "ac,1", "ab 1, ac 1", "20" and a blank.
GraphTexts ==
    { <<"a", "c", ",", "1">>,
      <<"a", "b", " ", "1", ",", " ", "a", "c", " ", "1">>,
      <<"2", "0">>,
      <<" ">> }

\* The purchase texts given to the parsers: up to MaxPieces pieces (a bare
\* title, a title with a number, a title with 0, a quantity with its unit,
\* nothing, a title with colon and number) joined by a comma or a separator.
ParsePieces ==
    { <<"a", "b">>,
      <<"a", "b", " ", "1">>,
      <<"c", "d", " ", "0">>,
      <<"2", " ", "c", "o", "p", "i", "e", "s">>,
      <<>>,
      <<"c", "d", ":", " ", "2">> }

ParseGlue ==
    { <<",">>, <<";">>, <<" ", "a", "n", "d", " ">>, <<" ", "&", " ">> }

\* the pieces ps joined by the glue gs
RECURSIVE Join(_, _)
Join(ps, gs) ==
    IF Len(ps) = 1 THEN ps[1]
    ELSE Join(SubSeq(ps, 1, Len(ps) - 1), gs) \o gs[Len(ps) - 1] \o ps[Len(ps)]

\* the search_value the language model may extract: a fragment of both
\* titles, an author's name, the author of the further rows, a string
\* matching nothing
SearchValues == { <<"a">>, <<"x">>, <<"v">>, <<"z">> }

\* what the language model's answer to the search-intent prompt amounts to:
\* the call raises, the answer is no JSON, it is JSON without the two keys,
\* or it is a JSON object naming one of the search types
ClassifierOutcomes == {"raise", "not_json", "no_fields", "author", "title", "general"}

\* ------------------------------------------------------------ text functions
Whitespace == {" "}
DigitValue == ("0" :> 0) @@ ("1" :> 1) @@ ("2" :> 2)
IsDigit(ch) == ch \in DOMAIN DigitValue

\* str.lower() on the letters that occur in Messages
lower(s) ==
    [k \in DOMAIN s |-> CASE s[k] = "B" -> "b" [] OTHER -> s[k]]

\* str.strip(chars)
RECURSIVE lstrip(_, _)
lstrip(s, chars) ==
    IF s # <<>> /\ Head(s) \in chars THEN lstrip(Tail(s), chars) ELSE s

RECURSIVE rstrip(_, _)
rstrip(s, chars) ==
    IF s # <<>> /\ s[Len(s)] \in chars
      THEN rstrip(SubSeq(s, 1, Len(s) - 1), chars) ELSE s

strip(s, chars) == rstrip(lstrip(s, chars), chars)

\* int() of a digit string
RECURSIVE int(_)
int(ds) ==
    IF ds = <<>> THEN 0
    ELSE 10 * int(SubSeq(ds, 1, Len(ds) - 1)) + DigitValue[ds[Len(ds)]]

\* the last position of the longest run of digits (\d+) / of blanks (\s*)
\* that starts at position i; i - 1 when the run is empty
RECURSIVE DigitsEnd(_, _)
DigitsEnd(s, i) ==
    IF i <= Len(s) /\ IsDigit(s[i]) THEN DigitsEnd(s, i + 1) ELSE i - 1

RECURSIVE SpacesEnd(_, _)
SpacesEnd(s, i) ==
    IF i <= Len(s) /\ s[i] \in Whitespace THEN SpacesEnd(s, i + 1) ELSE i - 1

\* the literal w occurs in s at position i, case-insensitively
LiteralAt(s, i, w) ==
    /\ i >= 1 /\ i + Len(w) - 1 <= Len(s)
    /\ lower(SubSeq(s, i, i + Len(w) - 1)) = w

\* (?:copies|copy|books|book), the alternatives in the order they are tried
UnitWords ==
    << <<"c", "o", "p", "i", "e", "s">>, <<"c", "o", "p", "y">>,
       <<"b", "o", "o", "k", "s">>, <<"b", "o", "o", "k">> >>

\* the last position of the unit word that matches at position i, else 0
UnitEnd(s, i) ==
    LET ks == {k \in DOMAIN UnitWords : LiteralAt(s, i, UnitWords[k])}
    IN  IF ks = {} THEN 0 ELSE i + Len(UnitWords[Min(ks)]) - 1

NoMatch == [start |-> 0, end |-> 0, quantity |-> 0]

\* \w on the characters of the texts: everything but blank and punctuation
IsWordChar(ch) == ch \notin {" ", ",", ";", ":", "&"}

\* the quantity_patterns, matched at position i; _parse_buy_request has the
\* first three, BuyAgent._parse_single_buy_request all five:
\*   1  (\d+)\s*(?:copies|copy|books|book)
\*   2  quantity\s*:?\s*(\d+)
\*   3  ,\s*(\d+)(?:\s*(?:copies|copy|books|book))?
\*   4  :\s*(\d+)
\*   5  \b(\d+)\s*$
PatternAt(k, s, i) ==
    CASE k = 1 ->
           LET e == DigitsEnd(s, i)
               u == UnitEnd(s, SpacesEnd(s, e + 1) + 1)
           IN  IF e >= i /\ u # 0
                 THEN [start |-> i, end |-> u, quantity |-> int(SubSeq(s, i, e))]
                 ELSE NoMatch
      [] k = 2 ->
           LET word == <<"q", "u", "a", "n", "t", "i", "t", "y">>
               j    == SpacesEnd(s, i + Len(word)) + 1
               j2   == IF j <= Len(s) /\ s[j] = ":" THEN j + 1 ELSE j
               d    == SpacesEnd(s, j2) + 1
               e    == DigitsEnd(s, d)
           IN  IF LiteralAt(s, i, word) /\ e >= d
                 THEN [start |-> i, end |-> e, quantity |-> int(SubSeq(s, d, e))]
                 ELSE NoMatch
      [] k = 3 ->
           LET d == SpacesEnd(s, i + 1) + 1
               e == DigitsEnd(s, d)
               u == UnitEnd(s, SpacesEnd(s, e + 1) + 1)
           IN  IF s[i] = "," /\ e >= d
                 THEN [start |-> i, end |-> IF u # 0 THEN u ELSE e,
                       quantity |-> int(SubSeq(s, d, e))]
                 ELSE NoMatch
      [] k = 4 ->
           LET d == SpacesEnd(s, i + 1) + 1
               e == DigitsEnd(s, d)
           IN  IF s[i] = ":" /\ e >= d
                 THEN [start |-> i, end |-> e, quantity |-> int(SubSeq(s, d, e))]
                 ELSE NoMatch
      [] k = 5 ->
           LET e == DigitsEnd(s, i)
           IN  IF /\ i = 1 \/ ~IsWordChar(s[i - 1])
                  /\ e >= i
                  /\ SpacesEnd(s, e + 1) = Len(s)
                 THEN [start |-> i, end |-> Len(s), quantity |-> int(SubSeq(s, i, e))]
                 ELSE NoMatch

\* re.search(pattern k, s): the leftmost match
search(k, s) ==
    LET starts == {i \in 1..Len(s) : PatternAt(k, s, i) # NoMatch}
    IN  IF starts = {} THEN NoMatch ELSE PatternAt(k, s, Min(starts))

\* re.sub(pattern k, '', s): s without any match of the pattern
RECURSIVE sub(_, _)
sub(k, s) ==
    LET m == search(k, s)
    IN  IF m = NoMatch THEN s
        ELSE SubSeq(s, 1, m.start - 1) \o sub(k, SubSeq(s, m.end + 1, Len(s)))

\* _parse_buy_request: the quantity of the first pattern that matches (0 when
\* none does) and, as title, what is left of the text
parse_buy_request(user_input) ==
    LET ks   == {k \in 1..3 : search(k, user_input) # NoMatch}
        rest == IF ks = {} THEN user_input ELSE sub(Min(ks), user_input)
    IN  [book_title |-> strip(strip(rest, {" ", ","}), Whitespace),
         quantity   |-> IF ks = {} THEN 0 ELSE search(Min(ks), user_input).quantity]

\* BuyAgent._parse_single_buy_request: the quantity of the first pattern
\* that matches; when that is 0 or none matches, a number the text ends with,
\* else 1; the title is what is left of the text, or the whole text with
\* quantity 1 when less than two characters are left
parse_single_buy_request(user_input) ==
    LET result(original_input, book_title, quantity) ==
            IF Len(book_title) < 2
              THEN [title |-> strip(original_input, Whitespace), quantity |-> 1]
            ELSE [title |-> book_title, quantity |-> quantity]
        cleaned(text) == strip(strip(text, {" ", ",", ":"}), Whitespace)
        fallback(rest, end_number_match) ==
            IF end_number_match # NoMatch
              THEN result(user_input, cleaned(sub(5, rest)), end_number_match.quantity)
            ELSE result(user_input, cleaned(rest), 1)
        after(rest) == fallback(rest, search(5, rest))
        matched(k, found) ==
            IF found # 0 THEN result(user_input, cleaned(sub(k, user_input)), found)
            ELSE after(sub(k, user_input))
        first(ks) ==
            IF ks = {} THEN fallback(user_input, search(5, user_input))
            ELSE matched(Min(ks), search(Min(ks), user_input).quantity)
    IN  first({k \in 1..5 : search(k, user_input) # NoMatch})

\* str.split(sep)
RECURSIVE split(_, _)
split(s, sep) ==
    LET starts == {i \in 1..(Len(s) - Len(sep) + 1) :
                     SubSeq(s, i, i + Len(sep) - 1) = sep}
    IN  IF starts = {} THEN <<s>>
        ELSE <<SubSeq(s, 1, Min(starts) - 1)>>
             \o split(SubSeq(s, Min(starts) + Len(sep), Len(s)), sep)

\* the last position of the longest run of [^,:] that starts at position i
RECURSIVE TitleEnd(_, _)
TitleEnd(s, i) ==
    IF i <= Len(s) /\ s[i] \notin {",", ":"} THEN TitleEnd(s, i + 1) ELSE i - 1

\* colon_pattern ([^,:]+):\s*(\d+) matched at position i
ColonAt(s, i) ==
    LET r == TitleEnd(s, i)
        d == SpacesEnd(s, r + 2) + 1
        e == DigitsEnd(s, d)
    IN  IF r >= i /\ r < Len(s) /\ s[r + 1] = ":" /\ e >= d
          THEN [start |-> i, end |-> e, title |-> SubSeq(s, i, r),
                quantity |-> int(SubSeq(s, d, e))]
        ELSE [start |-> 0, end |-> 0, title |-> <<>>, quantity |-> 0]

\* re.findall(colon_pattern, s): the matches from position i on, left to right
RECURSIVE colon_findall(_, _)
colon_findall(s, i) ==
    LET starts == {j \in i..Len(s) : ColonAt(s, j).start # 0}
    IN  IF starts = {} THEN <<>>
        ELSE <<ColonAt(s, Min(starts))>>
             \o colon_findall(s, ColonAt(s, Min(starts)).end + 1)

\* the first position of the run of digits that ends s; Len(s) + 1 when s does
\* not end with a digit
RECURSIVE DigitsStart(_, _)
DigitsStart(s, i) ==
    IF i >= 1 /\ IsDigit(s[i]) THEN DigitsStart(s, i - 1) ELSE i + 1

\* re.search(r'^(.+?)\s+(\d+)$', part): the shortest beginning that is
\* followed by blanks and then digits up to the end
number_match(part) ==
    LET d  == DigitsStart(part, Len(part))
        ns == {n \in 1..(d - 2) : \A j \in (n + 1)..(d - 1) : part[j] \in Whitespace}
    IN  IF d <= Len(part) /\ ns # {}
          THEN [matched |-> TRUE,
                title |-> strip(SubSeq(part, 1, Min(ns)), Whitespace),
                quantity |-> int(SubSeq(part, d, Len(part)))]
        ELSE [matched |-> FALSE, title |-> <<>>, quantity |-> 0]

\* re.search(r'\d+\s*(?:copies?|books?)', part, re.IGNORECASE)
has_quantity_words(part) ==
    \E i \in 1..Len(part) :
        /\ IsDigit(part[i])
        /\ LET j == SpacesEnd(part, DigitsEnd(part, i) + 1) + 1
           IN  \/ LiteralAt(part, j, <<"c", "o", "p", "i", "e">>)
               \/ LiteralAt(part, j, <<"b", "o", "o", "k">>)

\* the items among rs with a title and a positive quantity
WithTitleAndQuantity(rs) ==
    SelectSeq(rs, LAMBDA r : r.title # <<>> /\ r.quantity > 0)

\* separators with ' and ' looked for before ';'
separators_AndFirst ==
    << <<" ", "a", "n", "d", " ">>, <<";">>, <<" ", "&", " ">> >>

\* separators, in the order they are looked for
separators ==
    << <<";">>, <<" ", "a", "n", "d", " ">>, <<" ", "&", " ">> >>

\* lines 324-339: the "Book: number" items
colon_requests(user_input) ==
    LET ms == colon_findall(user_input, 1)
    IN  WithTitleAndQuantity(
            [k \in DOMAIN ms |-> [title |-> strip(ms[k].title, Whitespace),
                                  quantity |-> ms[k].quantity]])

\* lines 344-372: the comma-separated parts taken as "Title Number" items.
\* The loop stops at a part with quantity words; a part without a number
\* counts as one copy and clears all_parts_have_numbers, unless it is empty.
RECURSIVE comma_loop(_, _, _, _)
comma_loop(comma_parts, k, temp_requests, all_parts_have_numbers) ==
    IF k > Len(comma_parts)
      THEN [temp_requests |-> temp_requests,
            all_parts_have_numbers |-> all_parts_have_numbers]
    ELSE LET part == strip(comma_parts[k], Whitespace)
             m    == number_match(part)
         IN  IF m.matched
               THEN comma_loop(comma_parts, k + 1,
                               IF m.title # <<>> /\ m.quantity > 0
                                 THEN Append(temp_requests,
                                             [title |-> m.title, quantity |-> m.quantity])
                               ELSE temp_requests,
                               all_parts_have_numbers)
             ELSE IF has_quantity_words(part)
               THEN [temp_requests |-> temp_requests,
                     all_parts_have_numbers |-> FALSE]
             ELSE IF part # <<>>
               THEN comma_loop(comma_parts, k + 1,
                               Append(temp_requests, [title |-> part, quantity |-> 1]),
                               FALSE)
             ELSE comma_loop(comma_parts, k + 1, temp_requests,
                             all_parts_have_numbers)

\* lines 374-384: each part parsed as a single request
single_requests(parts) ==
    LET stripped == [k \in DOMAIN parts |-> strip(parts[k], Whitespace)]
        nonempty == SelectSeq(stripped, LAMBDA part : part # <<>>)
    IN  WithTitleAndQuantity(
            [k \in DOMAIN nonempty |-> parse_single_buy_request(nonempty[k])])

\* re.search(r'\d+', message): the first run of digits, <<>> when there is none
first_number(message) ==
    LET starts == {i \in 1..Len(message) : IsDigit(message[i])}
    IN  IF starts = {} THEN <<>>
        ELSE SubSeq(message, Min(starts), DigitsEnd(message, Min(starts)))

\* any(keyword in text for keyword in keywords)
any_keyword(keywords, text) == \E kw \in keywords : IsSubstring(kw, text)

\* ------------------------------------------------------------ dialogue data
\* sessions holds the session objects.  The object under a user id is that
\* user's entry of the session table.  The object under DetachedKey(p) is one
\* that handler p still refers to after the table entry it came from was
\* overwritten.
DetachedKey(p) == 0 - p

SessionKeys == UserIds \cup {DetachedKey(p) : p \in Procs}

\* no session under a user id
NoSession == [user_id |-> 0, state |-> "none", conversation_history |-> <<>>,
              last_activity |-> 0]

\* the texts of the responses, each abbreviated to one word
Text(name) == <<name>>

NoResponse == [success |-> FALSE, response |-> <<>>, current_agent |-> "",
               conversation_step |-> "", transaction_result |-> "None"]

\* a response payload of the handlers
Response(success, text, agent, step, transaction_result) ==
    [success |-> success, response |-> Text(text), current_agent |-> agent,
     conversation_step |-> step, transaction_result |-> transaction_result]

\* The search of _handle_search_input: the value searched for, the rows
\* found, how many of them the response text lists, and the N of its
\* "... and N more results" line (0: the text has no such line)
NoSearch == [value |-> <<>>, books |-> {}, listed |-> 0, more |-> 0, read |-> "no"]

\* no ChatbotState: the turn is not one of the graph workflow.  hops and
\* answer only record what happened: the subordinate nodes run so far and
\* the class of the language model's latest answer to the master node.
NoGraph == [current_agent |-> "none", conversation_step |-> "",
            user_message |-> <<>>, agent_response |-> <<>>,
            transaction_result |-> "None", conversation_history |-> <<>>,
            hops |-> 0, answer |-> "none"]

\* The locals of one process_message call.  exc, from_state, idle, log0,
\* calls0 and the two snapshots only record what happened: the exception
\* raised inside the call, the state the message was dispatched from, how
\* long the user's session had been idle when it was looked up (-1: there was
\* none), the turn log the looked-up session had, the number of engine calls
\* the handler had made, and the store when the message arrived.  session
\* is the handler's reference to its session object: the key under which
\* the object is kept in sessions.
IdleTurn == [user_id |-> 0, message |-> <<>>, response |-> NoResponse,
             session |-> 0,
             search |-> NoSearch, graph |-> NoGraph,
             exc |-> "none", from_state |-> "none", idle |-> -1, log0 |-> <<>>,
             calls0 |-> 0, pre_stock |-> <<>>, pre_credits |-> <<>>]

\* --------------------------------------------------------------------- Init
Init ==
    /\ stock \in [Books -> 0..MaxStock]
    /\ credits \in [Accounts -> {UnitPrice * k : k \in 0..MaxCreditUnits}]
    /\ credits[2] = UnitPrice * MaxCreditUnits
    /\ pc = [p \in Procs |-> "idle"]
    /\ call = [p \in Procs |-> IdleCall]
    /\ ncalls = [p \in Procs |-> 0]
    /\ sessions = [u \in SessionKeys |-> NoSession]
    /\ now = 0
    /\ turn = [p \in Procs |-> IdleTurn]
    /\ nturns = 0

\* ------------------------------------------------- starting an engine call
\* calls started so far, by either handler
CallsMade == ncalls[1] + ncalls[2]

NewCall(op, user_id, book_requests, amount) ==
    [IdleCall EXCEPT !.op = op, !.user_id = user_id,
                     !.book_requests = book_requests, !.amount = amount,
                     !.i = 1, !.pre_stock = stock, !.pre_credits = credits]

\* a caller invokes buy_book_transaction(user_id, book_title, quantity)
BeginBuy(p, users) ==
    /\ pc[p] = "idle"
    /\ CallsMade < MaxCalls
    /\ \E u \in users, t \in RequestTitles, q \in Quantities :
          call' = [call EXCEPT ![p] =
                      NewCall("buy", u, <<[title |-> t, quantity |-> q]>>, 0)]
    /\ pc' = [pc EXCEPT ![p] = "b_get_book"]
    /\ ncalls' = [ncalls EXCEPT ![p] = @ + 1]
    /\ UNCHANGED <<stock, credits, dialogue>>

\* a caller invokes buy_multiple_books_transaction(user_id, book_requests)
BeginBuyMultiple(p, users) ==
    /\ pc[p] = "idle"
    /\ CallsMade < MaxCalls
    /\ \E u \in users, n \in 1..MaxLines :
         \E reqs \in [1..n -> RequestLines] :
            call' = [call EXCEPT ![p] = NewCall("buy_multiple", u, reqs, 0)]
    /\ pc' = [pc EXCEPT ![p] = "m_validate"]
    /\ ncalls' = [ncalls EXCEPT ![p] = @ + 1]
    /\ UNCHANGED <<stock, credits, dialogue>>

\* a caller invokes add_credits_transaction(user_id, credits_to_add)
BeginAddCredits(p, users) ==
    /\ pc[p] = "idle"
    /\ CallsMade < MaxCalls
    /\ \E u \in users, a \in Amounts :
          call' = [call EXCEPT ![p] = NewCall("add_credits", u, <<>>, a)]
    /\ pc' = [pc EXCEPT ![p] = "c_get_credits"]
    /\ ncalls' = [ncalls EXCEPT ![p] = @ + 1]
    /\ UNCHANGED <<stock, credits, dialogue>>

\* a caller that got the result of a purchase call makes the same call again
Repeat(p) ==
    /\ pc[p] = "done"
    /\ CallsMade < MaxCalls
    /\ call[p].op \in {"buy", "buy_multiple"}
    /\ ~call[p].prev.repeat
    /\ call' = [call EXCEPT ![p] =
                  [NewCall(@.op, @.user_id, @.book_requests, @.amount)
                      EXCEPT !.prev = Summary(call[p])]]
    /\ pc' = [pc EXCEPT ![p] = IF call[p].op = "buy" THEN "b_get_book"
                                ELSE "m_validate"]
    /\ ncalls' = [ncalls EXCEPT ![p] = @ + 1]
    /\ UNCHANGED <<stock, credits, dialogue>>

\* the caller takes the result; the handler is free for the next call
Finish(p) ==
    /\ pc[p] = "done"
    /\ pc' = [pc EXCEPT ![p] = "idle"]
    /\ call' = [call EXCEPT ![p] = IdleCall]
    /\ UNCHANGED <<stock, credits, ncalls, dialogue>>

\* ------------------------------------------------- buy_book_transaction
\* lines 110-115: look the book up, reject a missing book or short stock
BuyGetBook(p) ==
    /\ pc[p] = "b_get_book"
    /\ \E o \in ReadOutcomes :
         LET c    == call[p]
             req  == c.book_requests[1]
             book == get_book_by_title(req.title, o)
             c1   == [c EXCEPT !.book = book,
                               !.io = Append(@, IO("get_book", book.title, book.Qty, o, FALSE))]
         IN  IF book = NoBook
               THEN Return(p, c1, Fail("Book not found"))
             ELSE IF ~InStock(book, req.quantity)
               THEN Return(p, c1, Fail("Not enough books in stock"))
             ELSE Goto(p, c1, "b_get_credits")
    /\ UNCHANGED <<stock, credits, ncalls, dialogue>>

\* lines 118-124: read the balance, reject a missing user or short balance
BuyGetCredits(p) ==
    /\ pc[p] = "b_get_credits"
    /\ \E o \in ReadOutcomes :
         LET c    == call[p]
             cur  == get_user_credits(c.user_id, o)
             cost == Cost(c.book_requests[1].quantity)
             c1   == [c EXCEPT !.current_credits = cur, !.total_cost = cost,
                               !.io = Append(@, IO("get_credits", c.user_id, cur, o, FALSE))]
         IN  IF cur = None
               THEN Return(p, c1, Fail("User not found"))
             ELSE IF ~CanAfford(cur, cost)
               THEN Return(p, c1, Fail("Not enough credits"))
             ELSE Goto(p, c1, "b_update_qty")
    /\ UNCHANGED <<stock, credits, ncalls, dialogue>>

\* where buy_book_transaction goes after its stock write (lines 129-130)
BuyAfterUpdateQty(outcome) ==
    IF outcome = "ok" THEN "b_update_credits" ELSE "done"

\* lines 127-130: write the decremented stock
BuyUpdateQty(p) ==
    /\ pc[p] = "b_update_qty"
    /\ \E o \in WriteOutcomes :
         LET c       == call[p]
             book    == c.book
             new_qty == book.Qty - c.book_requests[1].quantity
             c1      == [c EXCEPT !.io = Append(@, IO("set_qty", book.title, new_qty, o, FALSE))]
         IN  /\ stock' = IF o = "ok" THEN [stock EXCEPT ![book.title] = new_qty] ELSE stock
             /\ IF BuyAfterUpdateQty(o) = "done"
                  THEN Return(p, c1, Fail(IF o = "raise" THEN "Transaction failed"
                                          ELSE "Failed to update book quantity"))
                  ELSE Goto(p, c1, BuyAfterUpdateQty(o))
    /\ UNCHANGED <<credits, ncalls, dialogue>>

\* lines 133-146: write the debited balance; success, or go and roll back
BuyUpdateCredits(p) ==
    /\ pc[p] = "b_update_credits"
    /\ \E o \in WriteOutcomes :
         LET c           == call[p]
             req         == c.book_requests[1]
             new_credits == c.current_credits - c.total_cost
             c1          == [c EXCEPT !.io = Append(@, IO("set_credits", c.user_id, new_credits, o, FALSE))]
             line        == [title |-> c.book.title, quantity_purchased |-> req.quantity,
                             cost |-> c.total_cost, remaining_qty |-> c.book.Qty - req.quantity,
                             original_qty |-> c.book.Qty]
         IN  /\ credits' = IF o = "ok" THEN [credits EXCEPT ![c.user_id] = new_credits]
                           ELSE credits
             /\ CASE o = "ok"    -> Return(p, c1, [NoResult EXCEPT
                                        !.success = TRUE,
                                        !.purchased_books = <<line>>,
                                        !.total_books_purchased = req.quantity,
                                        !.total_credits_spent = c.total_cost,
                                        !.remaining_credits = new_credits])
                  [] o = "fail"  -> Goto(p, c1, "b_rollback")
                  [] o = "raise" -> Return(p, c1, Fail("Transaction failed"))
    /\ UNCHANGED <<stock, ncalls, dialogue>>

\* a rollback whose UPDATE has no WHERE clause: every row gets the quantity
BuyRollback_AllRows(p) ==
    /\ pc[p] = "b_rollback"
    /\ \E o \in WriteOutcomes :
         LET c    == call[p]
             book == c.book
             c1   == [c EXCEPT !.io = Append(@, IO("set_qty", book.title, book.Qty, o, TRUE))]
         IN  /\ stock' = IF o = "ok" THEN [b \in Books |-> book.Qty] ELSE stock
             /\ Return(p, c1, Fail(IF o = "raise" THEN "Transaction failed"
                                   ELSE "Failed to update user credits"))
    /\ UNCHANGED <<credits, ncalls, dialogue>>

\* lines 135-137: put the stock back; the write's result is not looked at
BuyRollback(p) ==
    /\ pc[p] = "b_rollback"
    /\ \E o \in WriteOutcomes :
         LET c    == call[p]
             book == c.book
             c1   == [c EXCEPT !.io = Append(@, IO("set_qty", book.title, book.Qty, o, TRUE))]
         IN  /\ stock' = IF o = "ok" THEN [stock EXCEPT ![book.title] = book.Qty] ELSE stock
             /\ Return(p, c1, Fail(IF o = "raise" THEN "Transaction failed"
                                   ELSE "Failed to update user credits"))
    /\ UNCHANGED <<credits, ncalls, dialogue>>

\* ------------------------------------- buy_multiple_books_transaction
\* lines 167-190: one pass of the validation loop
MultiValidate(p) ==
    /\ pc[p] = "m_validate"
    /\ call[p].i <= Len(call[p].book_requests)
    /\ LET c   == call[p]
           req == c.book_requests[c.i]
       IN  IF req.quantity <= 0
             THEN Return(p, c, Fail("Invalid quantity"))
           ELSE \E o \in ReadOutcomes :
             LET book == get_book_by_title(req.title, o)
                 c1   == [c EXCEPT !.io = Append(@, IO("get_book", book.title, book.Qty, o, FALSE))]
                 cost == Cost(req.quantity)
                 c2   == [c1 EXCEPT !.total_cost = @ + cost,
                                    !.validated_books = Append(@,
                                        [book |-> book, requested_quantity |-> req.quantity,
                                         cost |-> cost, actual_title |-> book.title]),
                                    !.i = @ + 1]
             IN  IF book = NoBook
                   THEN Return(p, c1, Fail("Book not found"))
                 ELSE IF ~InStock(book, req.quantity)
                   THEN Return(p, c1, Fail("Not enough copies"))
                 ELSE Goto(p, c2, IF c2.i > Len(c.book_requests)
                                    THEN "m_get_credits" ELSE "m_validate")
    /\ UNCHANGED <<stock, credits, ncalls, dialogue>>

\* lines 193-198: read the balance once all lines validated
MultiGetCredits(p) ==
    /\ pc[p] = "m_get_credits"
    /\ \E o \in ReadOutcomes :
         LET c   == call[p]
             cur == get_user_credits(c.user_id, o)
             c1  == [c EXCEPT !.current_credits = cur, !.i = 1,
                              !.io = Append(@, IO("get_credits", c.user_id, cur, o, FALSE))]
         IN  IF cur = None
               THEN Return(p, c1, Fail("User not found"))
             ELSE IF ~CanAfford(cur, c.total_cost)
               THEN Return(p, c1, Fail("Not enough credits"))
             ELSE Goto(p, c1, "m_update_qty")
    /\ UNCHANGED <<stock, credits, ncalls, dialogue>>

\* a commit loop that carries on after a stock write reported failure
MultiAfterUpdateQty_CarryOn(outcome, i, n) ==
    CASE outcome \in {"ok", "fail"} ->
             IF i < n THEN "m_update_qty" ELSE "m_update_credits"
      [] outcome = "raise" -> "done"

\* where the commit loop goes after the stock write of line i of n
\* (lines 210-224); "m_rollback_prev" is the branch of lines 211-214
MultiAfterUpdateQty(outcome, i, n) ==
    CASE outcome = "ok"    -> IF i < n THEN "m_update_qty" ELSE "m_update_credits"
      [] outcome = "fail"  -> "m_rollback_prev"
      [] outcome = "raise" -> "done"

\* lines 204-222: one pass of the commit loop.  When the write reports
\* failure and an earlier line was already written, the rollback loop of
\* lines 212-213 reads prev_book['actual_title'], a key the entries of
\* purchased_books (lines 216-222) do not have: the KeyError leaves the loop
\* before any restore write and is caught by the handler of line 241.
MultiUpdateQty(p) ==
    /\ pc[p] = "m_update_qty"
    /\ \E o \in WriteOutcomes :
         LET c         == call[p]
             book_data == c.validated_books[c.i]
             book      == book_data.book
             quantity  == book_data.requested_quantity
             new_qty   == book.Qty - quantity
             c1        == [c EXCEPT !.io = Append(@, IO("set_qty", book_data.actual_title, new_qty, o, FALSE))]
             c2        == [c1 EXCEPT !.purchased_books = Append(@,
                                        [title |-> book_data.actual_title,
                                         quantity_purchased |-> quantity,
                                         cost |-> book_data.cost,
                                         remaining_qty |-> new_qty,
                                         original_qty |-> book.Qty]),
                                     !.i = @ + 1]
             next      == MultiAfterUpdateQty(o, c.i, Len(c.validated_books))
         IN  /\ stock' = IF o = "ok" THEN [stock EXCEPT ![book_data.actual_title] = new_qty]
                         ELSE stock
             /\ IF next = "done"
                  THEN Return(p, c1, Fail("Multiple book transaction failed"))
                ELSE IF next = "m_rollback_prev"
                  THEN IF c.purchased_books = <<>>
                         THEN Return(p, c1, Fail("Failed to update quantity"))
                       ELSE Return(p, c1, Fail("Multiple book transaction failed"))
                ELSE Goto(p, IF o = "ok" THEN c2 ELSE [c1 EXCEPT !.i = @ + 1], next)
    /\ UNCHANGED <<credits, ncalls, dialogue>>

\* line 235: sum(book['quantity_purchased'] for book in purchased_books)
RECURSIVE SumPurchased(_)
SumPurchased(lines) ==
    IF lines = <<>> THEN 0
    ELSE Head(lines).quantity_purchased + SumPurchased(Tail(lines))

\* lines 225-239: write the debited balance once
MultiUpdateCredits(p) ==
    /\ pc[p] = "m_update_credits"
    /\ \E o \in WriteOutcomes :
         LET c           == call[p]
             new_credits == c.current_credits - c.total_cost
             c1          == [c EXCEPT !.io = Append(@, IO("set_credits", c.user_id, new_credits, o, FALSE))]
         IN  /\ credits' = IF o = "ok" THEN [credits EXCEPT ![c.user_id] = new_credits]
                           ELSE credits
             /\ CASE o = "ok"    -> Return(p, c1, [NoResult EXCEPT
                                        !.success = TRUE,
                                        !.purchased_books = c.purchased_books,
                                        !.total_books_purchased = SumPurchased(c.purchased_books),
                                        !.total_credits_spent = c.total_cost,
                                        !.remaining_credits = new_credits])
                  [] o = "fail"  -> Goto(p, [c1 EXCEPT !.i = 1,
                                                !.error = "Failed to update user credits"],
                                         "m_rollback_all")
                  [] o = "raise" -> Return(p, c1, Fail("Multiple book transaction failed"))
    /\ UNCHANGED <<stock, ncalls, dialogue>>

\* lines 227-230: the balance write failed; one pass of the rollback loop
\* over purchased_books writes original_qty back, never looking at the
\* write's result
MultiRollbackAll(p) ==
    /\ pc[p] = "m_rollback_all"
    /\ \E o \in WriteOutcomes :
         LET c    == call[p]
             prev == c.purchased_books[c.i]
             c1   == [c EXCEPT !.io = Append(@, IO("set_qty", prev.title, prev.original_qty, o, TRUE)),
                               !.i = @ + 1]
         IN  /\ stock' = IF o = "ok" THEN [stock EXCEPT ![prev.title] = prev.original_qty]
                         ELSE stock
             /\ IF o = "raise"
                  THEN Return(p, c1, Fail("Multiple book transaction failed"))
                ELSE IF c1.i > Len(c.purchased_books)
                  THEN Return(p, c1, Fail(c.error))
                ELSE Goto(p, c1, "m_rollback_all")
    /\ UNCHANGED <<credits, ncalls, dialogue>>

\* ---------------------------------------------- add_credits_transaction
\* lines 248-250
CreditsGet(p) ==
    /\ pc[p] = "c_get_credits"
    /\ \E o \in ReadOutcomes :
         LET c   == call[p]
             cur == get_user_credits(c.user_id, o)
             c1  == [c EXCEPT !.current_credits = cur,
                              !.io = Append(@, IO("get_credits", c.user_id, cur, o, FALSE))]
         IN  IF cur = None
               THEN Return(p, c1, Fail("User not found"))
             ELSE Goto(p, c1, "c_update_credits")
    /\ UNCHANGED <<stock, credits, ncalls, dialogue>>

\* lines 252-260
CreditsUpdate(p) ==
    /\ pc[p] = "c_update_credits"
    /\ \E o \in WriteOutcomes :
         LET c           == call[p]
             new_credits == c.current_credits + c.amount
             c1          == [c EXCEPT !.io = Append(@, IO("set_credits", c.user_id, new_credits, o, FALSE))]
         IN  /\ credits' = IF o = "ok" THEN [credits EXCEPT ![c.user_id] = new_credits]
                           ELSE credits
             /\ CASE o = "ok"    -> Return(p, c1, [NoResult EXCEPT !.success = TRUE,
                                                      !.remaining_credits = new_credits])
                  [] o = "fail"  -> Return(p, c1, Fail("Failed to add credits"))
                  [] o = "raise" -> Return(p, c1, Fail("Transaction failed"))
    /\ UNCHANGED <<stock, ncalls, dialogue>>

\* =========================================================== session_manager
\* ChatSession.__init__
ChatSession(user_id) ==
    [user_id |-> user_id, state |-> INITIAL, conversation_history |-> <<>>,
     last_activity |-> now]

\* an expiry test that never finds a session expired
is_expired_Never(session) == FALSE

\* ChatSession.is_expired; time.time() counts seconds, the clock minutes
is_expired(session) == (now - session.last_activity) * 60 > SessionTimeout * 60

\* ChatSession.set_state
set_state(session, state) == [session EXCEPT !.state = state, !.last_activity = now]

\* ChatSession.add_message
add_message(session, role, content) ==
    [session EXCEPT !.conversation_history =
                        Append(@, [role |-> role, content |-> content, timestamp |-> now]),
                    !.last_activity = now]

\* a cleanup that removes every session not used at this very moment
cleanup_expired_sessions_Unused(table) ==
    [u \in DOMAIN table |->
        IF u \in UserIds /\ table[u] # NoSession /\ table[u].last_activity < now
          THEN NoSession
        ELSE table[u]]

\* SessionManager._cleanup_expired_sessions
cleanup_expired_sessions(table) ==
    [u \in DOMAIN table |->
        IF u \in UserIds /\ table[u] # NoSession /\ is_expired(table[u])
          THEN NoSession
        ELSE table[u]]

\* a lookup that gives every message a new session
get_session_Anew(table, user_id) ==
    LET created   == [table EXCEPT ![user_id] = ChatSession(user_id)]
        refreshed == [created EXCEPT ![user_id].last_activity = now]
    IN  cleanup_expired_sessions(refreshed)

\* SessionManager.get_session: the table after the lookup
get_session(table, user_id) ==
    LET created   == IF table[user_id] = NoSession
                       THEN [table EXCEPT ![user_id] = ChatSession(user_id)]
                     ELSE table
        refreshed == [created EXCEPT ![user_id].last_activity = now]
    IN  cleanup_expired_sessions(refreshed)

\* ========================================================= stateful_workflow
\* a message arrives: process_message(user_id, username, message) is called
TurnBegin(p, users) ==
    /\ pc[p] = "idle"
    /\ nturns < MaxTurns
    /\ \E u \in users : \E m \in MessagesOf(u) :
          turn' = [turn EXCEPT ![p] =
                      [IdleTurn EXCEPT !.user_id = u, !.message = m,
                                       !.calls0 = ncalls[p],
                                       !.pre_stock = stock, !.pre_credits = credits]]
    /\ pc' = [pc EXCEPT ![p] = "t_get_session"]
    /\ nturns' = nturns + 1
    /\ UNCHANGED <<stock, credits, call, ncalls, sessions, now>>

\* line 38: session = session_manager.get_session(user_id, username)
GetSession(p) ==
    /\ pc[p] = "t_get_session"
    /\ LET u     == turn[p].user_id
           found == sessions[u]
       IN  /\ sessions' = get_session(sessions, u)
           /\ turn' = [turn EXCEPT
                         ![p].session = u,
                         ![p].idle = IF found = NoSession THEN -1
                                     ELSE now - found.last_activity,
                         ![p].log0 = found.conversation_history]
    /\ pc' = [pc EXCEPT ![p] = "t_add_user"]
    /\ UNCHANGED <<stock, credits, call, ncalls, now, nturns>>

\* get_session statement by statement, for handlers that run side by side.
\* lines 45-49: is there an entry for the user id?
LookupCheck(p) ==
    /\ pc[p] = "t_get_session"
    /\ pc' = [pc EXCEPT ![p] = IF sessions[turn[p].user_id] = NoSession
                                 THEN "t_create" ELSE "t_fetch"]
    /\ UNCHANGED <<stock, credits, call, ncalls, sessions, now, turn, nturns>>

\* line 46: self.sessions[user_id] = ChatSession(user_id, username).  A
\* handler that holds the object the entry referred to keeps that object,
\* which is no longer in the table.
LookupCreate(p) ==
    /\ pc[p] = "t_create"
    /\ LET u       == turn[p].user_id
           holders == {q \in Procs : turn[q].session = u /\ sessions[u] # NoSession}
       IN  /\ sessions' = [k \in SessionKeys |->
                             IF k = u THEN ChatSession(u)
                             ELSE IF \E q \in holders : k = DetachedKey(q)
                               THEN sessions[u]
                             ELSE sessions[k]]
           /\ turn' = [q \in Procs |->
                         IF q \in holders
                           THEN [turn[q] EXCEPT !.session = DetachedKey(q)]
                         ELSE turn[q]]
    /\ pc' = [pc EXCEPT ![p] = "t_fetch"]
    /\ UNCHANGED <<stock, credits, call, ncalls, now, nturns>>

\* lines 51-57: session = self.sessions[user_id], update_activity, cleanup.
\* No entry disappears between the statements of a lookup, as nothing is
\* expired while the clock stands still.
LookupFetch(p) ==
    /\ pc[p] = "t_fetch"
    /\ LET u     == turn[p].user_id
           found == sessions[u]
       IN  /\ found # NoSession
           /\ sessions' = cleanup_expired_sessions(
                              [sessions EXCEPT ![u].last_activity = now])
           /\ turn' = [turn EXCEPT
                         ![p].session = u,
                         ![p].idle = now - found.last_activity,
                         ![p].log0 = found.conversation_history]
    /\ pc' = [pc EXCEPT ![p] = "t_add_user"]
    /\ UNCHANGED <<stock, credits, call, ncalls, now, nturns>>

\* line 41: session.add_message("user", message)
AddUserMessage(p) ==
    /\ pc[p] = "t_add_user"
    /\ LET u == turn[p].user_id
       IN  sessions' = [sessions EXCEPT ![turn[p].session] = add_message(@, "user", turn[p].message)]
    /\ pc' = [pc EXCEPT ![p] = "t_dispatch"]
    /\ UNCHANGED <<stock, credits, call, ncalls, now, turn, nturns>>

\* a handler that answers an unknown command with an error payload
invalid_command_Error == Response(FALSE, "help", "master", "error", "None")

\* _handle_invalid_command
invalid_command == Response(TRUE, "help", "master", "initial", "None")

\* the exact commands of _handle_initial_state
query_command == <<"q", "u", "e", "r", "y">>
buy_command == <<"b", "u", "y">>
buy_credits_command == <<"b", "u", "y", " ", "c", "r", "e", "d", "i", "t", "s">>

\* an exact-command test that compares the message as it was typed
is_command_Verbatim(message, command) == message = command

\* user_message = message.lower().strip(); user_message == command
is_command(message, command) == strip(lower(message), Whitespace) = command

\* the keyword lists of _try_natural_language
buy_credit_keywords ==
    { <<"b", "u", "y">>, <<"p", "u", "r", "c", "h", "a", "s", "e">>,
      <<"c", "r", "e", "d", "i", "t">> }
buy_keywords == { <<"b", "u", "y">>, <<"p", "u", "r", "c", "h", "a", "s", "e">> }
copy_keywords ==
    { <<"c", "o", "p", "y">>, <<"c", "o", "p", "i", "e", "s">>, <<"b", "o", "o", "k">> }
credit_keywords ==
    { <<"c", "r", "e", "d", "i", "t">>, <<"c", "r", "e", "d", "i", "t", "s">> }

\* _handle_initial_state and _try_natural_language: the state to set, and
\* either the response or the input handler to run on the same message
handle_initial_state(message) ==
    LET lower_msg == lower(message)
    IN  CASE is_command(message, query_command) ->
               [state |-> WAITING_FOR_SEARCH, goto |-> "t_respond",
                response |-> Response(TRUE, "search_prompt", "query",
                                      "waiting_for_search", "None")]
          [] is_command(message, buy_command) ->
               [state |-> WAITING_FOR_BUY_DETAILS, goto |-> "t_respond",
                response |-> Response(TRUE, "buy_prompt", "buy",
                                      "waiting_for_buy_details", "None")]
          [] is_command(message, buy_credits_command) ->
               [state |-> WAITING_FOR_CREDITS, goto |-> "t_respond",
                response |-> Response(TRUE, "credits_prompt", "credit",
                                      "waiting_for_credits", "None")]
          [] OTHER ->
               IF ~any_keyword(buy_credit_keywords, lower_msg)
                 THEN [state |-> WAITING_FOR_SEARCH, goto |-> "t_search",
                       response |-> NoResponse]
               ELSE IF /\ any_keyword(buy_keywords, lower_msg)
                       /\ any_keyword(copy_keywords, lower_msg)
                 THEN [state |-> WAITING_FOR_BUY_DETAILS, goto |-> "t_buy",
                       response |-> NoResponse]
               ELSE IF /\ any_keyword(credit_keywords, lower_msg)
                       /\ first_number(message) # <<>>
                 THEN [state |-> WAITING_FOR_CREDITS, goto |-> "t_credits",
                       response |-> NoResponse]
               ELSE [state |-> INITIAL, goto |-> "t_respond",
                     response |-> invalid_command]

\* lines 44-53: dispatch on the session's state
Dispatch(p) ==
    /\ pc[p] = "t_dispatch"
    /\ LET u       == turn[p].user_id
           session == sessions[turn[p].session]
           t1      == [turn[p] EXCEPT !.from_state = session.state]
           h       == handle_initial_state(turn[p].message)
       IN  CASE session.state = INITIAL ->
                  /\ sessions' = IF h.response = invalid_command THEN sessions
                                 ELSE [sessions EXCEPT ![turn[p].session] = set_state(@, h.state)]
                  /\ turn' = [turn EXCEPT ![p] = [t1 EXCEPT !.response = h.response]]
                  /\ pc' = [pc EXCEPT ![p] = h.goto]
             [] session.state = WAITING_FOR_SEARCH ->
                  /\ turn' = [turn EXCEPT ![p] = t1]
                  /\ pc' = [pc EXCEPT ![p] = "t_search"]
                  /\ UNCHANGED sessions
             [] session.state = WAITING_FOR_BUY_DETAILS ->
                  /\ turn' = [turn EXCEPT ![p] = t1]
                  /\ pc' = [pc EXCEPT ![p] = "t_buy"]
                  /\ UNCHANGED sessions
             [] session.state = WAITING_FOR_CREDITS ->
                  /\ turn' = [turn EXCEPT ![p] = t1]
                  /\ pc' = [pc EXCEPT ![p] = "t_credits"]
                  /\ UNCHANGED sessions
             [] OTHER ->
                  \* _handle_invalid_state
                  /\ sessions' = [sessions EXCEPT ![turn[p].session] = set_state(@, INITIAL)]
                  /\ turn' = [turn EXCEPT ![p] = [t1 EXCEPT !.response = invalid_command]]
                  /\ pc' = [pc EXCEPT ![p] = "t_respond"]
    /\ UNCHANGED <<stock, credits, call, ncalls, now, nturns>>

\* _parse_search_intent: what the language model's answer is parsed into;
\* anything but a JSON object with both keys falls back to a general search
parse_search_intent(search_query, answer, value) ==
    IF answer \in {"author", "title", "general"}
      THEN [search_type |-> answer, search_value |-> value]
      ELSE [search_type |-> "general", search_value |-> search_query]

\* chatbot_db.get_books_by_author: the rows found, none when the read fails
get_books_by_author(author_name, outcome) ==
    IF outcome = "none" THEN {}
    ELSE {b \in Catalog : IsSubstring(author_name, CatalogAuthor(b))}

\* chatbot_db.get_books_by_partial_title
get_books_by_partial_title(search_term, outcome) ==
    IF outcome = "none" THEN {}
    ELSE {b \in Catalog : \/ IsSubstring(search_term, CatalogTitle(b))
                          \/ IsSubstring(search_term, CatalogAuthor(b))}

\* a listing without a limit
listed_All(books) == Cardinality(books)

\* lines 152 and 159-160: books[:10] is listed, len(books) - 10 are left
listed(books) == IF Cardinality(books) > 10 THEN 10 ELSE Cardinality(books)
more(books) == IF Cardinality(books) > 10 THEN Cardinality(books) - 10 ELSE 0

\* _handle_search_input
SearchInput(p) ==
    /\ pc[p] = "t_search"
    /\ LET u           == turn[p].user_id
           search_term == strip(turn[p].message, Whitespace)
       IN  IF search_term = <<>>
             THEN /\ turn' = [turn EXCEPT ![p].response =
                                Response(TRUE, "search_reprompt", "query",
                                         "waiting_for_search", "None")]
                  /\ UNCHANGED sessions
           ELSE \E answer \in ClassifierOutcomes, value \in SearchValues,
                   o \in ReadOutcomes :
                  LET search_params == parse_search_intent(search_term, answer, value)
                      books ==
                          CASE search_params.search_type = "author" ->
                                 get_books_by_author(search_params.search_value, o)
                            [] search_params.search_type = "title" ->
                                 get_books_by_partial_title(search_params.search_value, o)
                            [] OTHER ->
                                 get_books_by_partial_title(search_term, o)
                      text == IF books = {} THEN "search_none"
                              ELSE IF Cardinality(books) = 1 THEN "search_one"
                              ELSE "search_many"
                      searched == IF search_params.search_type \in {"author", "title"}
                                 THEN search_params.search_value
                               ELSE search_term
                  IN  /\ sessions' = [sessions EXCEPT ![turn[p].session] = set_state(@, INITIAL)]
                      /\ turn' = [turn EXCEPT
                                    ![p].search =
                                        [value |-> searched, books |-> books,
                                         listed |-> listed(books),
                                         more |-> more(books), read |-> o],
                                    ![p].response =
                                        Response(TRUE, text, "master", "completed",
                                                 "books_found")]
    /\ pc' = [pc EXCEPT ![p] = "t_respond"]
    /\ UNCHANGED <<stock, credits, call, ncalls, now, nturns>>

\* _handle_buy_input, lines 190-203: parse the message, ask again or call
\* buy_book_transaction
BuyInput(p) ==
    /\ pc[p] = "t_buy"
    /\ LET u      == turn[p].user_id
           parsed == parse_buy_request(turn[p].message)
       IN  IF parsed.book_title = <<>> \/ parsed.quantity <= 0
             THEN /\ turn' = [turn EXCEPT ![p].response =
                                Response(TRUE, "buy_reprompt", "buy",
                                         "waiting_for_buy_details", "None")]
                  /\ pc' = [pc EXCEPT ![p] = "t_respond"]
                  /\ UNCHANGED <<call, ncalls>>
           ELSE /\ call' = [call EXCEPT ![p] =
                              NewCall("buy", u, <<[title |-> parsed.book_title,
                                                   quantity |-> parsed.quantity]>>, 0)]
                /\ pc' = [pc EXCEPT ![p] = "b_get_book"]
                /\ ncalls' = [ncalls EXCEPT ![p] = @ + 1]
                /\ UNCHANGED turn
    /\ UNCHANGED <<stock, credits, sessions, now, nturns>>

\* a handler that leaves the session waiting for return details after a
\* failed purchase
after_purchase_Return(result) ==
    IF result.success THEN INITIAL ELSE WAITING_FOR_RETURN_DETAILS

\* a handler that asks again after a failed purchase
after_purchase_Retry(result) ==
    IF result.success THEN INITIAL ELSE WAITING_FOR_BUY_DETAILS

\* _handle_buy_input, line 231: "Reset to initial state", whatever the result
after_purchase(result) == INITIAL

\* _handle_buy_input, lines 205-240: buy_book_transaction has returned
BuyResult(p) ==
    /\ pc[p] = "done"
    /\ call[p].op = "buy"
    /\ turn[p].user_id # 0
    /\ LET u      == turn[p].user_id
           result == call[p].result
       IN  /\ sessions' = [sessions EXCEPT ![turn[p].session] = set_state(@, after_purchase(result))]
           /\ turn' = [turn EXCEPT ![p].response =
                         Response(TRUE,
                                  IF result.success THEN "purchase_ok"
                                  ELSE "purchase_failed",
                                  "master", "completed",
                                  IF result.success THEN "success" ELSE "failure")]
    /\ pc' = [pc EXCEPT ![p] = "t_respond"]
    /\ UNCHANGED <<stock, credits, call, ncalls, now, nturns>>

\* an except block that reports the turn as handled
credits_except_Success ==
    Response(TRUE, "credits_error", "master", "error", "None")

\* _handle_credits_input, lines 307-316: the payload built by the handler's
\* except block
credits_except ==
    Response(FALSE, "credits_error", "master", "error", "None")

\* _handle_credits_input, lines 255-273 and 307-316: find the number, ask
\* again, raise ValueError("Invalid amount") into the handler's own except
\* block, or call add_credits_transaction
CreditsInput(p) ==
    /\ pc[p] = "t_credits"
    /\ LET u     == turn[p].user_id
           match == first_number(turn[p].message)
       IN  IF match = <<>>
             THEN /\ turn' = [turn EXCEPT ![p].response =
                                Response(TRUE, "credits_reprompt", "credit",
                                         "waiting_for_credits", "None")]
                  /\ pc' = [pc EXCEPT ![p] = "t_respond"]
                  /\ UNCHANGED <<call, ncalls, sessions>>
           ELSE IF int(match) <= 0
             THEN /\ sessions' = [sessions EXCEPT ![turn[p].session] = set_state(@, INITIAL)]
                  /\ turn' = [turn EXCEPT
                                ![p].exc = "ValueError",
                                ![p].response = credits_except]
                  /\ pc' = [pc EXCEPT ![p] = "t_respond"]
                  /\ UNCHANGED <<call, ncalls>>
           ELSE /\ call' = [call EXCEPT ![p] = NewCall("add_credits", u, <<>>, int(match))]
                /\ pc' = [pc EXCEPT ![p] = "c_get_credits"]
                /\ ncalls' = [ncalls EXCEPT ![p] = @ + 1]
                /\ UNCHANGED <<turn, sessions>>
    /\ UNCHANGED <<stock, credits, now, nturns>>

\* a handler that asks for the amount again after a failed top-up
after_credits_Retry(result) ==
    IF result.success THEN INITIAL ELSE WAITING_FOR_CREDITS

\* _handle_credits_input, line 296: "Reset to initial state"
after_credits(result) == INITIAL

\* _handle_credits_input, lines 275-305: add_credits_transaction has returned
CreditsResult(p) ==
    /\ pc[p] = "done"
    /\ call[p].op = "add_credits"
    /\ turn[p].user_id # 0
    /\ LET u      == turn[p].user_id
           result == call[p].result
       IN  /\ sessions' = [sessions EXCEPT ![turn[p].session] = set_state(@, after_credits(result))]
           /\ turn' = [turn EXCEPT ![p].response =
                         Response(TRUE,
                                  IF result.success THEN "credits_ok"
                                  ELSE "credits_failed",
                                  "master", "completed",
                                  IF result.success THEN "success" ELSE "failure")]
    /\ pc' = [pc EXCEPT ![p] = "t_respond"]
    /\ UNCHANGED <<stock, credits, call, ncalls, now, nturns>>

\* line 56: response["success"] and response["response"]
is_logged(response) == response.success /\ response.response # <<>>

\* lines 55-59: record the response in the turn log and return it
Respond(p) ==
    /\ pc[p] = "t_respond"
    /\ LET u        == turn[p].user_id
           response == turn[p].response
       IN  sessions' = IF is_logged(response)
                         THEN [sessions EXCEPT ![turn[p].session] =
                                  add_message(@, "assistant", response.response)]
                       ELSE sessions
    /\ pc' = [pc EXCEPT ![p] = "t_returned"]
    /\ UNCHANGED <<stock, credits, call, ncalls, now, turn, nturns>>

\* the caller has the response payload; the handler is free again
TurnEnd(p) ==
    /\ pc[p] = "t_returned"
    /\ pc' = [pc EXCEPT ![p] = "idle"]
    /\ turn' = [turn EXCEPT ![p] = IdleTurn]
    /\ call' = [call EXCEPT ![p] = IdleCall]
    /\ sessions' = [sessions EXCEPT ![DetachedKey(p)] = NoSession]
    /\ UNCHANGED <<stock, credits, ncalls, now, nturns>>

\* time passes before a message arrives: just the timeout, or a minute more
Tick ==
    /\ \A p \in Procs : pc[p] = "idle"
    /\ nturns < MaxTurns
    /\ \E d \in {SessionTimeout, SessionTimeout + 1} :
          /\ now + d <= MaxTime
          /\ now' = now + d
    /\ UNCHANGED <<stock, credits, pc, call, ncalls, sessions, turn, nturns>>

\* ============================================================ graph workflow
\* backend/chatbot/workflow.py and backend/chatbot/agents.py: one message
\* runs through a graph of agents.  The master node asks the language model
\* for the intent and routes to the query, buy or credit node, each of which
\* hands control back to the master node.  There are no sessions: every
\* message gets a ChatbotState of its own.

\* what the language model may answer to the intent prompt: the call raises,
\* the answer is no JSON, it is JSON but no object, or it is an object with
\* or without "intent", "action": "provide_information" and "response", and
\* with or without a text to forward (search_query, book_request with
\* has_book_details, or credit_amount)
IntentNames == {"missing", "search", "buy", "credits", "help", "unclear"}

IntentObject(intent, action, response, forward) ==
    [kind |-> "object", intent |-> intent, action |-> action,
     response |-> response, forward |-> forward]

NoObject(kind) == [IntentObject("missing", FALSE, FALSE, <<>>) EXCEPT !.kind = kind]

IntentAnswers ==
    {NoObject(k) : k \in {"raise", "not_json", "not_object"}}
    \cup {IntentObject(i, a, r, f) :
            i \in IntentNames, a \in BOOLEAN, r \in BOOLEAN,
            f \in {<<>>} \cup GraphTexts}

\* the class of an answer: how it fails, or "lacking" for an object without
\* "intent" or without "response", or "complete"
AnswerClass(answer) ==
    IF answer.kind # "object" THEN answer.kind
    ELSE IF answer.intent = "missing" \/ ~answer.response THEN "lacking"
    ELSE "complete"

\* MasterAgent._analyze_user_intent, lines 169-188: the parsed answer, or the
\* "unclear" fallback when the call or json.loads raises
analyze_user_intent(answer) ==
    IF answer.kind \in {"raise", "not_json"}
      THEN IntentObject("unclear", FALSE, TRUE, <<>>)
    ELSE answer

\* ChatbotState as process_message creates it, lines 91-98
NewGraphState(message) ==
    [current_agent |-> "master", conversation_step |-> "initial",
     user_message |-> message, agent_response |-> <<>>,
     transaction_result |-> "None",
     conversation_history |-> <<[role |-> "user", content |-> message]>>,
     hops |-> 0, answer |-> "none"]

\* MasterAgent.process, lines 39-102: the state it returns, or the exception
\* it raises on an answer without the field it reads
master_process(state, intent_analysis) ==
    LET ia    == intent_analysis
        said  == [state EXCEPT !.agent_response = Text("intent_response"),
                               !.transaction_result = "None"]
        route(agent, step, text) ==
            IF ia.forward # <<>>
              THEN [exc |-> "none",
                    state |-> [state EXCEPT !.current_agent = agent,
                                            !.conversation_step = step,
                                            !.user_message = ia.forward,
                                            !.agent_response = Text(text),
                                            !.transaction_result = "None"]]
            ELSE IF ia.response
              THEN [exc |-> "none",
                    state |-> [said EXCEPT !.current_agent = agent,
                                           !.conversation_step = step]]
            ELSE [exc |-> "KeyError", state |-> state]
    IN  CASE ia.kind = "not_object" -> [exc |-> "AttributeError", state |-> state]
          [] ia.kind = "object" /\ ia.action ->
               IF ia.response THEN [exc |-> "none", state |-> said]
               ELSE [exc |-> "KeyError", state |-> state]
          [] ia.kind = "object" /\ ~ia.action /\ ia.intent = "missing" ->
               [exc |-> "KeyError", state |-> state]
          [] ia.kind = "object" /\ ~ia.action /\ ia.intent = "search" ->
               route("query", "waiting_for_book_search", "searching")
          [] ia.kind = "object" /\ ~ia.action /\ ia.intent = "buy" ->
               route("buy", "waiting_for_buy_details", "processing_purchase")
          [] ia.kind = "object" /\ ~ia.action /\ ia.intent = "credits" ->
               route("credit", "waiting_for_credit_amount", "adding_credits")
          [] ia.kind = "object" /\ ~ia.action /\ ia.intent = "help" ->
               IF ia.response THEN [exc |-> "none", state |-> said]
               ELSE [exc |-> "KeyError", state |-> state]
          [] OTHER ->
               [exc |-> "none",
                state |-> [state EXCEPT
                             !.agent_response =
                                 Text(IF ia.response THEN "intent_response"
                                      ELSE "clarify"),
                             !.transaction_result = "None"]]

\* ChatbotWorkflow._route_from_master, lines 80-85
route_from_master(state) ==
    IF state.current_agent = "master" THEN "end" ELSE state.current_agent

\* a parser that takes the comma-separated parts as items whether or not
\* each of them had a number
parse_multiple_buy_request_AnyParts(user_input) ==
    LET comma_format(parts, comma_parts, by_comma) ==
            IF /\ Len(parts) = 1 /\ Len(comma_parts) > 1
               /\ Len(by_comma.temp_requests) > 1
              THEN by_comma.temp_requests
            ELSE single_requests(parts)
        colon_format(parts, by_colon) ==
            IF Len(parts) = 1 /\ by_colon # <<>> THEN by_colon
            ELSE comma_format(parts, split(user_input, <<",">>),
                              comma_loop(split(user_input, <<",">>), 1, <<>>, TRUE))
        separated(found) ==
            colon_format(IF found = {} THEN <<user_input>>
                         ELSE split(user_input, separators[Min(found)]),
                         colon_requests(user_input))
    IN  separated({k \in DOMAIN separators :
                      IsSubstring(separators[k], user_input)})

\* BuyAgent._parse_multiple_buy_request
parse_multiple_buy_request(user_input) ==
    LET comma_format(parts, comma_parts, by_comma) ==
            IF /\ Len(parts) = 1 /\ Len(comma_parts) > 1
               /\ Len(by_comma.temp_requests) > 1
               /\ by_comma.all_parts_have_numbers
              THEN by_comma.temp_requests
            ELSE single_requests(parts)
        colon_format(parts, by_colon) ==
            IF Len(parts) = 1 /\ by_colon # <<>> THEN by_colon
            ELSE comma_format(parts, split(user_input, <<",">>),
                              comma_loop(split(user_input, <<",">>), 1, <<>>, TRUE))
        separated(found) ==
            colon_format(IF found = {} THEN <<user_input>>
                         ELSE split(user_input, separators[Min(found)]),
                         colon_requests(user_input))
    IN  separated({k \in DOMAIN separators :
                      IsSubstring(separators[k], user_input)})

\* a message arrives: ChatbotWorkflow.process_message, lines 87-98.  The
\* workflow keeps nothing from one message to the next, so a behaviour
\* follows a single message.
GraphBegin(p, users) ==
    /\ pc[p] = "idle"
    /\ nturns = 0
    /\ \E u \in users : \E m \in GraphTexts :
          turn' = [turn EXCEPT ![p] =
                      [IdleTurn EXCEPT !.user_id = u, !.message = m,
                                       !.calls0 = ncalls[p],
                                       !.graph = NewGraphState(m),
                                       !.pre_stock = stock, !.pre_credits = credits]]
    /\ pc' = [pc EXCEPT ![p] = "g_master"]
    /\ nturns' = nturns + 1
    /\ UNCHANGED <<stock, credits, call, ncalls, sessions, now>>

\* the master node and the conditional edge leaving it
GraphMaster(p) ==
    /\ pc[p] = "g_master"
    /\ \E answer \in IntentAnswers :
         LET g0  == [turn[p].graph EXCEPT !.answer = AnswerClass(answer)]
             out == master_process(g0, analyze_user_intent(answer))
             to  == route_from_master(out.state)
         IN  /\ (out.exc = "none" /\ to # "end") => g0.hops < MaxHops
             /\ turn' = [turn EXCEPT
                           ![p].graph =
                               IF out.exc = "none" /\ to # "end"
                                 THEN [out.state EXCEPT !.hops = @ + 1]
                               ELSE out.state,
                           ![p].exc = out.exc]
             /\ pc' = [pc EXCEPT ![p] =
                         IF out.exc # "none" THEN "g_except" ELSE "g_" \o to]
    /\ UNCHANGED <<stock, credits, call, ncalls, sessions, now, nturns>>

\* the query node: QueryAgent.process, lines 193-218
GraphQuery(p) ==
    /\ pc[p] = "g_query"
    /\ \E o \in ReadOutcomes :
         LET g           == turn[p].graph
             search_term == strip(g.user_message, Whitespace)
             books       == get_books_by_partial_title(search_term, o)
             text        == IF books = {} THEN "search_none"
                            ELSE IF Cardinality(books) = 1 THEN "search_one"
                            ELSE "search_many"
         IN  turn' = [turn EXCEPT
                        ![p].graph = [g EXCEPT !.agent_response = Text(text),
                                               !.conversation_step = "completed",
                                               !.current_agent = "master"],
                        ![p].search = [value |-> search_term, books |-> books,
                                       listed |-> listed(books),
                                       more |-> more(books), read |-> o]]
    /\ pc' = [pc EXCEPT ![p] = "g_master"]
    /\ UNCHANGED <<stock, credits, call, ncalls, sessions, now, nturns>>

\* the buy node: BuyAgent.process, lines 223-244 and 271-273: ask again, or
\* call the single-item or the multi-item transaction
GraphBuy(p) ==
    /\ pc[p] = "g_buy"
    /\ LET transact(book_requests) ==
           IF book_requests = <<>>
             THEN /\ turn' = [turn EXCEPT ![p].graph.agent_response =
                                Text("buy_reprompt")]
                  /\ pc' = [pc EXCEPT ![p] = "g_master"]
                  /\ UNCHANGED <<call, ncalls>>
           ELSE /\ call' = [call EXCEPT ![p] =
                              NewCall(IF Len(book_requests) = 1 THEN "buy"
                                      ELSE "buy_multiple",
                                      turn[p].user_id, book_requests, 0)]
                /\ pc' = [pc EXCEPT ![p] = IF Len(book_requests) = 1
                                             THEN "b_get_book" ELSE "m_validate"]
                /\ ncalls' = [ncalls EXCEPT ![p] = @ + 1]
                /\ UNCHANGED turn
       IN  transact(parse_multiple_buy_request(
                        strip(turn[p].graph.user_message, Whitespace)))
    /\ UNCHANGED <<stock, credits, sessions, now, nturns>>

\* what a subordinate node leaves in the state once its transaction returned
transaction_done(state, result, ok_text, failed_text) ==
    [state EXCEPT !.transaction_result =
                      IF result.success THEN "success" ELSE "failure",
                  !.agent_response =
                      Text(IF result.success THEN ok_text ELSE failed_text),
                  !.conversation_step = "completed",
                  !.current_agent = "master"]

\* BuyAgent.process, lines 245-298: the transaction has returned
GraphBuyResult(p) ==
    /\ pc[p] = "done"
    /\ call[p].op \in {"buy", "buy_multiple"}
    /\ turn[p].graph.current_agent = "buy"
    /\ turn' = [turn EXCEPT ![p].graph =
                  transaction_done(@, call[p].result,
                                   "purchase_ok", "purchase_failed")]
    /\ call' = [call EXCEPT ![p] = IdleCall]
    /\ pc' = [pc EXCEPT ![p] = "g_master"]
    /\ UNCHANGED <<stock, credits, ncalls, sessions, now, nturns>>

\* the credit node: CreditAgent.process, lines 431-445
GraphCredit(p) ==
    /\ pc[p] = "g_credit"
    /\ LET g     == turn[p].graph
           match == first_number(strip(g.user_message, Whitespace))
       IN  IF match = <<>> \/ int(match) <= 0
             THEN /\ turn' = [turn EXCEPT ![p].graph.agent_response =
                                Text("credits_reprompt")]
                  /\ pc' = [pc EXCEPT ![p] = "g_master"]
                  /\ UNCHANGED <<call, ncalls>>
           ELSE /\ call' = [call EXCEPT ![p] =
                              NewCall("add_credits", turn[p].user_id, <<>>,
                                      int(match))]
                /\ pc' = [pc EXCEPT ![p] = "c_get_credits"]
                /\ ncalls' = [ncalls EXCEPT ![p] = @ + 1]
                /\ UNCHANGED turn
    /\ UNCHANGED <<stock, credits, sessions, now, nturns>>

\* CreditAgent.process, lines 447-461: the transaction has returned
GraphCreditResult(p) ==
    /\ pc[p] = "done"
    /\ call[p].op = "add_credits"
    /\ turn[p].graph.current_agent = "credit"
    /\ turn' = [turn EXCEPT ![p].graph =
                  transaction_done(@, call[p].result,
                                   "credits_ok", "credits_failed")]
    /\ call' = [call EXCEPT ![p] = IdleCall]
    /\ pc' = [pc EXCEPT ![p] = "g_master"]
    /\ UNCHANGED <<stock, credits, ncalls, sessions, now, nturns>>

\* END is reached: process_message, lines 100-113
GraphEnd(p) ==
    /\ pc[p] = "g_end"
    /\ LET g == turn[p].graph
           h == IF g.agent_response # <<>>
                  THEN Append(g.conversation_history,
                              [role |-> "assistant", content |-> g.agent_response])
                ELSE g.conversation_history
       IN  turn' = [turn EXCEPT
                      ![p].graph.conversation_history = h,
                      ![p].response =
                          [success |-> TRUE, response |-> g.agent_response,
                           current_agent |-> g.current_agent,
                           conversation_step |-> g.conversation_step,
                           transaction_result |-> g.transaction_result]]
    /\ pc' = [pc EXCEPT ![p] = "t_returned"]
    /\ UNCHANGED <<stock, credits, call, ncalls, sessions, now, nturns>>

\* an exception left the graph: process_message, lines 115-120
GraphExcept(p) ==
    /\ pc[p] = "g_except"
    /\ turn' = [turn EXCEPT ![p].response =
                  Response(FALSE, "graph_error", "", "", "None")]
    /\ pc' = [pc EXCEPT ![p] = "t_returned"]
    /\ UNCHANGED <<stock, credits, call, ncalls, sessions, now, nturns>>

\* ==================================================================== parsers
\* BuyAgent's two parsers of purchase text, each applied to the text at hand;
\* the items it returns are kept in call[p].book_requests.
ParseSingle(p) ==
    /\ pc[p] = "idle"
    /\ call' = [call EXCEPT ![p].book_requests =
                  <<parse_single_buy_request(turn[p].message)>>]
    /\ pc' = [pc EXCEPT ![p] = "parsed_single"]
    /\ UNCHANGED <<stock, credits, ncalls, sessions, now, turn, nturns>>

ParseMultiple(p) ==
    /\ pc[p] = "idle"
    /\ call' = [call EXCEPT ![p].book_requests =
                  parse_multiple_buy_request(turn[p].message)]
    /\ pc' = [pc EXCEPT ![p] = "parsed_multiple"]
    /\ UNCHANGED <<stock, credits, ncalls, sessions, now, turn, nturns>>

\* ------------------------------------------------------------ specifications
\* the steps of buy_book_transaction
BuySteps(p) ==
    \/ BuyGetBook(p) \/ BuyGetCredits(p) \/ BuyUpdateQty(p)
    \/ BuyUpdateCredits(p) \/ BuyRollback(p)

\* the steps of buy_multiple_books_transaction
MultiSteps(p) ==
    \/ MultiValidate(p) \/ MultiGetCredits(p) \/ MultiUpdateQty(p)
    \/ MultiUpdateCredits(p) \/ MultiRollbackAll(p)

\* the steps of add_credits_transaction
CreditSteps(p) == CreditsGet(p) \/ CreditsUpdate(p)

Step(p) == BuySteps(p) \/ MultiSteps(p) \/ CreditSteps(p) \/ Finish(p)

Begin(p, users) ==
    BeginBuy(p, users) \/ BeginBuyMultiple(p, users) \/ BeginAddCredits(p, users)

\* One request handler: every call runs to completion before the next starts.
\* The calls are made for user 1 or for the unknown user 3; account 2 is a
\* bystander.
Next == Begin(1, {1, 3}) \/ Repeat(1) \/ Step(1)

Spec == Init /\ [][Next]_vars

\* Two request handlers, one per signed-in user, whose storage accesses
\* interleave.
InitConc ==
    /\ stock = [b \in Books |-> MaxStock]
    /\ credits = [u \in Accounts |-> UnitPrice * MaxCreditUnits]
    /\ pc = [p \in Procs |-> "idle"]
    /\ call = [p \in Procs |-> IdleCall]
    /\ ncalls = [p \in Procs |-> 0]
    /\ sessions = [u \in SessionKeys |-> NoSession]
    /\ now = 0
    /\ turn = [p \in Procs |-> IdleTurn]
    /\ nturns = 0

\* Each handler makes one call: handler 1 any engine call for user 1,
\* handler 2 a single-item purchase or a top-up for user 2, overlapping in
\* every possible way.
NextConc ==
    \/ ncalls[1] = 0 /\ Begin(1, {1})
    \/ ncalls[2] = 0 /\ (BeginBuy(2, {2}) \/ BeginAddCredits(2, {2}))
    \/ \E p \in Procs : Step(p)

SpecConc == InitConc /\ [][NextConc]_vars

\* The dialogue: messages of two users arrive one at a time at one request
\* handler and are handled to the end before the next one is taken; time
\* passes between messages.
InitChat == InitConc

\* the steps of process_message
TurnSteps(p) ==
    \/ GetSession(p) \/ AddUserMessage(p) \/ Dispatch(p)
    \/ SearchInput(p) \/ BuyInput(p) \/ BuyResult(p)
    \/ CreditsInput(p) \/ CreditsResult(p)
    \/ Respond(p) \/ TurnEnd(p)

NextChat ==
    \/ TurnBegin(1, ChatUsers)
    \/ TurnSteps(1)
    \/ BuySteps(1) \/ CreditSteps(1)
    \/ Tick

SpecChat == InitChat /\ [][NextChat]_vars

\* Overlapping messages of one user: two handlers run process_message side
\* by side for user id 2, whose messages ask for searches only.  The clock
\* stands still.
InitOverlap == InitConc

NextOverlap ==
    \E p \in Procs :
        \/ TurnBegin(p, {2})
        \/ LookupCheck(p) \/ LookupCreate(p) \/ LookupFetch(p)
        \/ AddUserMessage(p) \/ Dispatch(p) \/ SearchInput(p)
        \/ Respond(p) \/ TurnEnd(p)

SpecOverlap == InitOverlap /\ [][NextOverlap]_vars

\* The parsers: one of BuyAgent's two is applied to a purchase text.
InitParse ==
    /\ stock = [b \in Books |-> MaxStock]
    /\ credits = [u \in Accounts |-> UnitPrice * MaxCreditUnits]
    /\ pc = [p \in Procs |-> "idle"]
    /\ call = [p \in Procs |-> IdleCall]
    /\ ncalls = [p \in Procs |-> 0]
    /\ sessions = [u \in SessionKeys |-> NoSession]
    /\ now = 0
    /\ \E n \in 1..MaxPieces :
         \E ps \in [1..n -> ParsePieces], gs \in [1..(n - 1) -> ParseGlue] :
            turn = [p \in Procs |->
                      IF p = 1 THEN [IdleTurn EXCEPT !.message = Join(ps, gs)]
                      ELSE IdleTurn]
    /\ nturns = 0

NextParse == ParseSingle(1) \/ ParseMultiple(1)

SpecParse == InitParse /\ [][NextParse]_vars

\* The graph workflow: a message of user 1 runs through the graph to END or
\* to an exception.
InitGraph == InitConc

GraphSteps(p) ==
    \/ GraphMaster(p) \/ GraphQuery(p)
    \/ GraphBuy(p) \/ GraphBuyResult(p)
    \/ GraphCredit(p) \/ GraphCreditResult(p)
    \/ GraphEnd(p) \/ GraphExcept(p)

NextGraph ==
    \/ GraphBegin(1, {1})
    \/ GraphSteps(1)
    \/ BuySteps(1) \/ MultiSteps(1) \/ CreditSteps(1)
    \/ TurnEnd(1)

SpecGraph == InitGraph /\ [][NextGraph]_vars

\* ======================================================================
\* Properties of the purchase transaction engine
\* ======================================================================
RestockLevel == 20

\* what result.get("restock_occurred", False) yields for a line of an engine
\* result: the engine never sets the key
restock_occurred(line) == FALSE

Done(p) == pc[p] = "done"
IsPurchase(c) == c.op \in {"buy", "buy_multiple"}

RECURSIVE SumQuantity(_)
SumQuantity(reqs) ==
    IF reqs = <<>> THEN 0 ELSE Head(reqs).quantity + SumQuantity(Tail(reqs))

\* the row a title request resolves to, 0 when no title contains it
Resolve(title) ==
    LET rows == {b \in Books : IsSubstring(title, Title[b])}
    IN  IF rows = {} THEN 0 ELSE Min(rows)

\* storage accesses of a call, by kind
Writes(c) == SelectSeq(c.io, LAMBDA e : e.kind \in {"set_qty", "set_credits"})
StockWrites(c) == SelectSeq(c.io, LAMBDA e : e.kind = "set_qty" /\ ~e.comp)
CompWrites(c) == SelectSeq(c.io, LAMBDA e : e.kind = "set_qty" /\ e.comp)
CreditWrites(c) == SelectSeq(c.io, LAMBDA e : e.kind = "set_credits")
AllOk(log) == \A k \in DOMAIN log : log[k].outcome = "ok"

\* Phase-1 validation of a request against the store as it was at call start
LineFails(c, r) ==
    \/ Resolve(r.title) = 0
    \/ r.quantity <= 0
    \/ r.quantity > c.pre_stock[Resolve(r.title)]

\* every request line has a positive quantity
PositiveLines(c) == \A k \in DOMAIN c.book_requests : c.book_requests[k].quantity > 0

Phase1Fails(c) ==
    \/ \E k \in DOMAIN c.book_requests : LineFails(c, c.book_requests[k])
    \/ c.user_id \notin Accounts
    \/ c.pre_credits[c.user_id] < UnitPrice * SumQuantity(c.book_requests)

\* C1: a purchase call (single- or multi-item) in which a line item or the
\* account fails Phase-1 validation (no matching book, quantity above stock,
\* non-positive quantity, account missing, balance below total cost) returns
\* a failure result and has written no stock and no balance.
C1_Phase1RejectionWritesNothing ==
    \A p \in {1} :
        (Done(p) /\ IsPurchase(call[p]) /\ Phase1Fails(call[p]))
        => /\ ~call[p].result.success
           /\ Writes(call[p]) = <<>>
           /\ stock = call[p].pre_stock
           /\ credits = call[p].pre_credits

\* C2: a single-item purchase of q > 0 copies with stock >= q and balance >= 20*q
\* returns success with stock' = stock - q and balance' = balance - 20*q when
\* no storage access fails, and in every outcome either both changes are
\* present or neither is.
C2_SingleBothOrNeither ==
    \A p \in {1} :
        LET c == call[p]
            r == c.book_requests[1]
            b == Resolve(r.title)
            u == c.user_id
        IN  (/\ Done(p) /\ c.op = "buy"
             /\ b # 0 /\ u \in Accounts
             /\ r.quantity > 0
             /\ c.pre_stock[b] >= r.quantity
             /\ c.pre_credits[u] >= UnitPrice * r.quantity)
            => /\ AllOk(c.io)
                   => /\ c.result.success
                      /\ stock[b] = c.pre_stock[b] - r.quantity
                      /\ credits[u] = c.pre_credits[u] - UnitPrice * r.quantity
               /\ \/ /\ stock[b] = c.pre_stock[b] - r.quantity
                     /\ credits[u] = c.pre_credits[u] - UnitPrice * r.quantity
                  \/ /\ stock[b] = c.pre_stock[b]
                     /\ credits[u] = c.pre_credits[u]

\* C3: in a multi-item purchase, when the stock write of line N+1 fails after
\* N stock writes succeeded, then on return each of the N written books holds
\* its pre-call stock, the call reports failure and the balance was never
\* written.
C3_StockWriteFailureReverted ==
    \A p \in {1} :
        LET c  == call[p]
            sw == StockWrites(c)
        IN  (/\ Done(p) /\ c.op = "buy_multiple"
             /\ sw # <<>> /\ sw[Len(sw)].outcome # "ok")
            => /\ ~c.result.success
               /\ \A k \in 1..(Len(sw) - 1) :
                      stock[sw[k].target] = c.pre_stock[sw[k].target]
               /\ CreditWrites(c) = <<>>

\* C4: when every stock write of a purchase (of positive quantities)
\* succeeded and the balance write fails, every book written by the call is
\* back at its pre-purchase stock,
\* the call returns a failure result and the balance has its pre-call value.
C4_CreditWriteFailureReverted ==
    \A p \in {1} :
        LET c  == call[p]
            sw == StockWrites(c)
            cw == CreditWrites(c)
        IN  (/\ Done(p) /\ IsPurchase(c) /\ PositiveLines(c)
             /\ AllOk(sw) /\ cw # <<>> /\ cw[1].outcome # "ok")
            => /\ ~c.result.success
               /\ \A k \in DOMAIN sw : stock[sw[k].target] = c.pre_stock[sw[k].target]
               /\ credits = c.pre_credits

\* C5: within one purchase call the balance is written at most once; the
\* write is issued only after the stock write of every line has succeeded,
\* never before or between stock writes, and never after a stock write that
\* failed (the stock writes that follow a failed balance write are the
\* compensating restores).
C5_BalanceWrittenOnceAfterAllStock ==
    \A p \in Procs :
        LET c == call[p]
        IN  IsPurchase(c) =>
              /\ Len(CreditWrites(c)) <= 1
              /\ \A k \in DOMAIN c.io :
                   c.io[k].kind = "set_credits" =>
                     /\ \A j \in 1..(k - 1) :
                          c.io[j].kind = "set_qty" =>
                              ~c.io[j].comp /\ c.io[j].outcome = "ok"
                     /\ Cardinality({j \in 1..(k - 1) : c.io[j].kind = "set_qty"})
                            = Len(c.book_requests)
                     /\ \A j \in (k + 1)..Len(c.io) :
                          c.io[j].kind = "set_qty" => c.io[j].comp

\* a two-line purchase has issued its balance write after both stock writes
C5_Witness ==
    /\ Done(1) /\ call[1].op = "buy_multiple" /\ call[1].result.success
    /\ Len(call[1].book_requests) = 2
    /\ Len(StockWrites(call[1])) = 2
    /\ Len(CreditWrites(call[1])) = 1

\* C6: whenever a purchase (of positive quantities) returns a failure result
\* after Phase 2 has begun, i.e. after its first write
\* (a stock write or the balance write reported failure, or a storage fault
\* was raised and caught by the catch-all handler), every book's stock equals
\* its value at call start, provided the compensating writes that were made
\* succeeded.
C6_FailureMeansCompensated ==
    \A p \in {1} :
        LET c == call[p]
        IN  (/\ Done(p) /\ IsPurchase(c) /\ PositiveLines(c)
             /\ ~c.result.success
             /\ Writes(c) # <<>>
             /\ AllOk(CompWrites(c)))
            => stock = c.pre_stock

\* C7: a successful purchase that reduces a book's stock to exactly 0 leaves
\* that book's stock at 20 right after the call and the result line carries
\* a restock flag set to true.
C7_SoldOutIsRestocked ==
    \A p \in {1} :
        LET c == call[p]
        IN  (Done(p) /\ IsPurchase(c) /\ c.result.success)
            => \A k \in DOMAIN c.result.purchased_books :
                 LET line == c.result.purchased_books[k]
                 IN  (line.quantity_purchased > 0 /\ line.remaining_qty = 0)
                     => /\ stock[line.title] = RestockLevel
                        /\ restock_occurred(line)

\* C8: in every state reachable by any sequence or interleaving of purchases
\* (successful, rejected, or failed and compensated) and credit top-ups,
\* every book's quantity-on-hand is >= 0.
C8_StockNeverNegative == \A b \in Books : stock[b] >= 0

\* a purchase sold a book out while the other handler's call was under way
C8_Witness ==
    \E p \in Procs, q \in Procs, b \in Books :
        /\ p # q
        /\ Done(p) /\ IsPurchase(call[p]) /\ call[p].result.success
        /\ pc[q] \notin {"idle", "done"}
        /\ Len(call[q].io) > 0
        /\ call[p].pre_stock[b] > 0 /\ stock[b] = 0

\* C9: in every state reachable by any sequence or interleaving of purchase
\* and add_credits calls, every account's balance is >= 0.
C9_BalanceNeverNegative == \A u \in Accounts : credits[u] >= 0

\* C10: a purchase with a line item of non-positive quantity is rejected and
\* writes nothing, on the single-item and on the multi-item path; when the
\* quantity is all that is wrong with the request, the failure is the
\* invalid-quantity one.
C10_NonPositiveQuantityRejected ==
    \A p \in {1} :
        LET c == call[p]
            quantityOnly ==
                /\ c.user_id \in Accounts
                /\ c.pre_credits[c.user_id] >= 0
                /\ \A k \in DOMAIN c.book_requests :
                       /\ Resolve(c.book_requests[k].title) # 0
                       /\ c.book_requests[k].quantity
                              <= c.pre_stock[Resolve(c.book_requests[k].title)]
        IN  (/\ Done(p) /\ IsPurchase(c)
             /\ \E k \in DOMAIN c.book_requests : c.book_requests[k].quantity <= 0)
            => /\ ~c.result.success
               /\ Writes(c) = <<>>
               /\ (quantityOnly /\ AllOk(c.io)) => c.result.error = "Invalid quantity"

\* C11: in a purchase call, the balance is read only after every line's book
\* was looked up, found and had stock for the requested quantity; the total
\* cost is then 20 times the sum of the requested quantities; and when the
\* balance was read, the call is rejected for insufficient credit exactly
\* when that balance is below the total cost: a balance equal to the total
\* cost is accepted and the call goes on to its first write.
C11_CostAndCreditTest ==
    \A p \in Procs :
        LET c     == call[p]
            total == UnitPrice * SumQuantity(c.book_requests)
        IN  IsPurchase(c) =>
              \A k \in DOMAIN c.io :
                 c.io[k].kind = "get_credits" =>
                   /\ k = Len(c.book_requests) + 1
                   /\ \A j \in 1..(k - 1) :
                         /\ c.io[j].kind = "get_book"
                         /\ c.io[j].target = Resolve(c.book_requests[j].title)
                         /\ c.io[j].value >= c.book_requests[j].quantity
                   /\ c.total_cost = total
                   /\ (Done(p) /\ c.io[k].value # None) =>
                         /\ (c.result.error = "Not enough credits")
                                <=> (c.io[k].value < total)
                         /\ (c.io[k].value >= total) => Len(c.io) > k

\* a two-line purchase whose total cost equals the balance went through
C11_Witness ==
    LET c == call[1]
    IN  /\ Done(1) /\ c.op = "buy_multiple" /\ c.result.success
        /\ Len(c.book_requests) = 2
        /\ c.pre_credits[c.user_id] = UnitPrice * SumQuantity(c.book_requests)
        /\ c.result.remaining_credits = 0

\* C12: add_credits(user_id, amount) changes a balance only when amount is
\* positive and the account exists, and then balance' = balance + amount; a
\* non-positive amount is rejected (as an invalid amount when nothing else is
\* wrong) and a missing account is rejected as account-not-found, both
\* without any write and leaving every balance unchanged.
C12_AddCreditsValidated ==
    \A p \in {1} :
        LET c == call[p]
            u == c.user_id
        IN  (Done(p) /\ c.op = "add_credits")
            => /\ (c.amount <= 0)
                     => /\ ~c.result.success
                        /\ Writes(c) = <<>>
                        /\ credits = c.pre_credits
                        /\ (u \in Accounts /\ AllOk(c.io))
                               => c.result.error = "Invalid amount"
               /\ (c.amount > 0 /\ u \notin Accounts)
                     => /\ ~c.result.success
                        /\ c.result.error = "User not found"
                        /\ Writes(c) = <<>>
                        /\ credits = c.pre_credits
               /\ (c.amount > 0 /\ u \in Accounts /\ AllOk(c.io))
                     => /\ c.result.success
                        /\ credits = [c.pre_credits EXCEPT ![u] = @ + c.amount]
               /\ (credits # c.pre_credits)
                     => /\ c.amount > 0 /\ u \in Accounts
                        /\ credits = [c.pre_credits EXCEPT ![u] = @ + c.amount]

\* C13: when a purchase call (of positive quantities, for an existing
\* account) is made twice in a row with the same arguments, stock and balance
\* suffice before each of the two calls and no storage access fails, then
\* both calls succeed and their effects add up: after the second call each
\* line's book has stock = initial - 2*q and the balance is
\* initial - 2*20*(sum of q), and the second result reports just these values
\* (remaining balance, remaining quantity per line), i.e. values computed
\* from the store as the first call left it.
C13_RepeatedPurchaseAdds ==
    \A p \in {1} :
        LET c     == call[p]
            u     == c.user_id
            total == UnitPrice * SumQuantity(c.book_requests)
            Suffices(st, cr) ==
                /\ \A k \in DOMAIN c.book_requests :
                      LET r == c.book_requests[k]
                      IN  Resolve(r.title) # 0 /\ st[Resolve(r.title)] >= r.quantity
                /\ cr[u] >= total
        IN  (/\ Done(p) /\ IsPurchase(c) /\ c.prev.repeat
             /\ PositiveLines(c) /\ u \in Accounts
             /\ Suffices(c.prev.pre_stock, c.prev.pre_credits) /\ c.prev.allok
             /\ Suffices(c.pre_stock, c.pre_credits) /\ AllOk(c.io))
            => /\ c.prev.success
               /\ c.result.success
               /\ \A k \in DOMAIN c.book_requests :
                     LET r == c.book_requests[k]
                         b == Resolve(r.title)
                     IN  stock[b] = c.prev.pre_stock[b] - 2 * r.quantity
               /\ credits[u] = c.prev.pre_credits[u] - 2 * total
               /\ c.result.remaining_credits = c.prev.pre_credits[u] - 2 * total
               /\ c.result.total_credits_spent = total
               /\ \A k \in DOMAIN c.result.purchased_books :
                     LET line == c.result.purchased_books[k]
                     IN  line.remaining_qty = c.prev.pre_stock[line.title]
                                                 - 2 * line.quantity_purchased

\* a multi-item purchase was made twice and succeeded both times
C13_Witness ==
    LET c == call[1]
    IN  /\ Done(1) /\ c.op = "buy_multiple" /\ c.prev.repeat
        /\ c.prev.success /\ c.result.success
        /\ \E b \in Books : stock[b] = c.prev.pre_stock[b] - 2
        /\ credits[1] < c.pre_credits[1] /\ c.pre_credits[1] < c.prev.pre_credits[1]

\* sum of the line costs of a result
RECURSIVE SumCost(_)
SumCost(lines) ==
    IF lines = <<>> THEN 0 ELSE Head(lines).cost + SumCost(Tail(lines))

\* C14: the result of a successful multi-item purchase lists one entry per
\* request line, in request order, carrying the title of the book record the
\* line resolved to, the quantity purchased, the line cost 20 * quantity and
\* a restock flag; its total quantity is the sum of the line quantities, its
\* total cost the sum of the line costs, and its remaining balance the
\* pre-call balance less the total cost.
C14_MultiResultShape ==
    \A p \in {1} :
        LET c   == call[p]
            res == c.result
        IN  (Done(p) /\ c.op = "buy_multiple" /\ res.success)
            => /\ Len(res.purchased_books) = Len(c.book_requests)
               /\ \A k \in DOMAIN res.purchased_books :
                     LET line == res.purchased_books[k]
                         req  == c.book_requests[k]
                     IN  /\ line.title = Resolve(req.title)
                         /\ line.quantity_purchased = req.quantity
                         /\ line.cost = UnitPrice * req.quantity
                         /\ "restock_occurred" \in DOMAIN line
               /\ res.total_books_purchased = SumQuantity(c.book_requests)
               /\ res.total_credits_spent = SumCost(res.purchased_books)
               /\ res.remaining_credits
                      = c.pre_credits[c.user_id] - res.total_credits_spent

\* the errors a purchase returns after a Phase-2 failure that left nothing
\* to restore or whose restores were all written
CompensatedErrors == {"Failed to update user credits", "Failed to update quantity"}

\* C15: when a compensating restore write of a purchase call itself fails,
\* the call's result is not the one of an ordinary, compensated Phase-2
\* failure: the inconsistent store is reported to the caller as such.
C15_CompensationFailureReported ==
    \A p \in {1} :
        LET c == call[p]
        IN  (/\ Done(p) /\ IsPurchase(c)
             /\ CompWrites(c) # <<>> /\ ~AllOk(CompWrites(c)))
            => /\ ~c.result.success
               /\ c.result.error \notin CompensatedErrors

\* ======================================================================
\* Properties of the dialogue layer
\* ======================================================================
\* the handler is inside process_message
InTurn(p) == turn[p].user_id # 0

\* the handler is past the dispatch of lines 44-53
Dispatched(p) == InTurn(p) /\ turn[p].from_state # "none"

\* the handler is about to return the response payload
Returned(p) == pc[p] = "t_returned"

\* C16: when the session of a user id had been idle for longer than the
\* 30-minute timeout at the moment the user's next message looked it up, the
\* message is dispatched from state INITIAL and the session's turn log holds
\* no entry recorded before the idle period, as for a brand-new user.
C16_IdleSessionStartsFresh ==
    \A p \in {1} :
        LET t == turn[p]
            h == sessions[t.user_id].conversation_history
        IN  (Dispatched(p) /\ t.idle > SessionTimeout)
            => /\ t.from_state = INITIAL
               /\ t.log0 = <<>>
               /\ \A k \in DOMAIN h : h[k].timestamp >= now

\* right after a lookup: no session in the table has been idle for longer
\* than the timeout, and the user looked up has a session
AfterLookupClean ==
    \A p \in Procs :
        pc[p] = "t_add_user"
        => /\ \A u \in UserIds :
                 sessions[u] # NoSession
                 => now - sessions[u].last_activity <= SessionTimeout
           /\ sessions[turn[p].user_id] # NoSession

\* a step that removes a session from the table is the lookup step of some
\* message
EvictOnlyInLookup ==
    (\E u \in UserIds : sessions[u] # NoSession /\ sessions'[u] = NoSession)
    => \E p \in Procs : pc[p] = "t_get_session" /\ pc'[p] = "t_add_user"

\* C17: eviction is lazy.  Sessions leave the table only inside a session
\* lookup, never through the passing of time alone; and every lookup, for
\* whatever user id, removes all sessions idle for longer than the timeout,
\* so that right after a lookup the table holds no session idle for more
\* than 30 minutes and holds the session of the user looked up.
C17_LazyEviction == []AfterLookupClean /\ [][EvictOnlyInLookup]_vars

\* a user's lookup has just removed the other user's session, idle for more
\* than the timeout
C17_Witness ==
    /\ pc[1] = "t_add_user" /\ nturns = 2
    /\ turn[1].idle = -1 /\ now > SessionTimeout
    /\ sessions[turn[1].user_id] # NoSession
    /\ \A u \in ChatUsers \ {turn[1].user_id} : sessions[u] = NoSession

\* C18: a handled turn has appended to the session's turn log exactly one
\* user entry (the message) and, after it, exactly one assistant entry (the
\* response, error responses included); nothing else of the log changed, so
\* that every log alternates user, assistant.
C18_TurnLogEntries ==
    /\ \A p \in {1} :
          Returned(p) =>
            LET t == turn[p]
                h == sessions[t.user_id].conversation_history
                n == Len(t.log0)
            IN  /\ Len(h) = n + 2
                /\ SubSeq(h, 1, n) = t.log0
                /\ h[n + 1].role = "user" /\ h[n + 1].content = t.message
                /\ h[n + 2].role = "assistant"
                /\ h[n + 2].content = t.response.response
    /\ \A u \in UserIds :
          LET h == sessions[u].conversation_history
          IN  \A k \in DOMAIN h :
                h[k].role = IF k % 2 = 1 THEN "user" ELSE "assistant"

\* C19: process_message always returns a response payload, whatever the
\* message, the session state, the classifier's answer and the outcomes of
\* the storage accesses; when an exception was raised inside the turn and
\* caught by the dialogue layer, the payload has success = false, and a
\* failure of the transaction engine is carried by the payload as a failed
\* transaction result.
C19_AlwaysReturnsPayload ==
    \A p \in {1} :
      Returned(p) =>
        LET t == turn[p]
        IN  /\ t.response # NoResponse
            /\ t.response.success \in BOOLEAN
            /\ t.response.response # <<>>
            /\ t.exc # "none" => ~t.response.success
            /\ (call[p].op # "none" /\ ~call[p].result.success)
                  => t.response.transaction_result = "failure"

\* reached: a turn that raised ValueError has returned its payload
C19_Witness ==
    /\ Returned(1)
    /\ turn[1].exc = "ValueError"
    /\ ~turn[1].response.success
    /\ turn[1].response.conversation_step = "error"

\* the message as _handle_initial_state compares it, and the state and
\* prompt that go with each command
ExactCommand(message) == strip(lower(message), Whitespace)

PromptOf(command) ==
    CASE command = query_command ->
           [state |-> WAITING_FOR_SEARCH, text |-> Text("search_prompt")]
      [] command = buy_command ->
           [state |-> WAITING_FOR_BUY_DETAILS, text |-> Text("buy_prompt")]
      [] command = buy_credits_command ->
           [state |-> WAITING_FOR_CREDITS, text |-> Text("credits_prompt")]

\* C20: a turn dispatched from INITIAL whose message, trimmed and
\* lower-cased, is exactly "query", "buy" or "buy credits" leaves the
\* session in waiting_for_search, waiting_for_buy_details or
\* waiting_for_credits respectively, returns the matching prompt, and makes
\* no storage access: no stock and no balance has changed.
C20_ExactCommandPrompts ==
    \A p \in {1} :
      (/\ Returned(p)
       /\ turn[p].from_state = INITIAL
       /\ ExactCommand(turn[p].message)
             \in {query_command, buy_command, buy_credits_command})
      => LET t      == turn[p]
             expect == PromptOf(ExactCommand(t.message))
         IN  /\ sessions[t.user_id].state = expect.state
             /\ t.response.success
             /\ t.response.response = expect.text
             /\ t.response.conversation_step = expect.state
             /\ t.response.transaction_result = "None"
             /\ call[p] = IdleCall
             /\ stock = t.pre_stock
             /\ credits = t.pre_credits

\* reached: " Buy " sent in INITIAL has been answered with the purchase prompt
C20_Witness ==
    /\ Returned(1)
    /\ turn[1].from_state = INITIAL
    /\ turn[1].message = <<" ", "B", "u", "y", " ">>
    /\ sessions[turn[1].user_id].state = WAITING_FOR_BUY_DETAILS
    /\ turn[1].response.response = Text("buy_prompt")

\* the items _parse_buy_request extracts from a message: a title and a
\* positive quantity
ItemsExtracted(message) ==
    LET parsed == parse_buy_request(message)
    IN  parsed.book_title # <<>> /\ parsed.quantity > 0

\* the engine calls the handler has made for the turn it is handling
CallsInTurn(p) == ncalls[p] - turn[p].calls0

\* C21: a turn dispatched from waiting_for_buy_details whose message yields
\* a title and a positive quantity has called buy_book_transaction exactly
\* once, for that user, title and quantity, and ends with the session in
\* INITIAL whether the purchase succeeded or failed; a failed purchase is
\* reported in the response.
C21_PurchaseTurnReturnsToInitial ==
    \A p \in {1} :
      (/\ Returned(p)
       /\ turn[p].from_state = WAITING_FOR_BUY_DETAILS
       /\ ItemsExtracted(turn[p].message))
      => LET t      == turn[p]
             parsed == parse_buy_request(t.message)
             c      == call[p]
         IN  /\ CallsInTurn(p) = 1
             /\ c.op = "buy"
             /\ c.user_id = t.user_id
             /\ c.book_requests = <<[title |-> parsed.book_title,
                                     quantity |-> parsed.quantity]>>
             /\ sessions[t.user_id].state = INITIAL
             /\ t.response.response =
                   Text(IF c.result.success THEN "purchase_ok" ELSE "purchase_failed")
             /\ t.response.transaction_result =
                   (IF c.result.success THEN "success" ELSE "failure")

\* reached: "c,1" sent in waiting_for_buy_details, the purchase failed and
\* the session is back in INITIAL
C21_Witness ==
    /\ Returned(1)
    /\ turn[1].from_state = WAITING_FOR_BUY_DETAILS
    /\ turn[1].message = <<"c", ",", "1">>
    /\ ~call[1].result.success
    /\ Len(Writes(call[1])) > 0
    /\ sessions[turn[1].user_id].state = INITIAL

\* the rows of the catalog whose title or author contains the value
Matching(value) ==
    {b \in Catalog : \/ IsSubstring(value, CatalogTitle(b))
                     \/ IsSubstring(value, CatalogAuthor(b))}

\* what every returned turn that searched has done: the rows found match
\* the value searched for by title or by author, at most 10 of them are
\* listed, the rest is counted, no storage write was made and the session
\* is in INITIAL
SearchDone(p) ==
    LET t == turn[p]
        n == Cardinality(t.search.books)
    IN  /\ t.search.value # <<>>
        /\ t.search.books \subseteq Matching(t.search.value)
        /\ t.search.listed <= 10
        /\ t.search.listed + t.search.more = n
        /\ (t.search.more > 0) <=> (n > 10)
        /\ t.response.response =
              Text(IF n = 0 THEN "search_none"
                   ELSE IF n = 1 THEN "search_one" ELSE "search_many")
        /\ call[p] = IdleCall
        /\ stock = t.pre_stock
        /\ credits = t.pre_credits
        /\ sessions[t.user_id].state = INITIAL

\* C22 as stated: every turn dispatched from waiting_for_search, whatever
\* its message, searches the catalog by title or author, lists at most 10
\* rows and counts the rest, writes nothing and ends with the session in
\* INITIAL.
C22_AnyTextSearches ==
    \A p \in {1} :
      (Returned(p) /\ turn[p].from_state = WAITING_FOR_SEARCH) => SearchDone(p)

\* C22, amended: the same for every message that is not blank.
C22_NonBlankTextSearches ==
    \A p \in {1} :
      (/\ Returned(p)
       /\ turn[p].from_state = WAITING_FOR_SEARCH
       /\ strip(turn[p].message, Whitespace) # <<>>)
      => SearchDone(p)

\* reached: a search from waiting_for_search found more rows than are listed
C22_Witness ==
    /\ Returned(1)
    /\ turn[1].from_state = WAITING_FOR_SEARCH
    /\ Cardinality(turn[1].search.books) = MaxFurther
    /\ turn[1].search.listed = 10
    /\ turn[1].search.more = MaxFurther - 10
    /\ sessions[turn[1].user_id].state = INITIAL

\* a message that does not hold what the handler of the state expects
Unparseable(state, message) ==
    CASE state = WAITING_FOR_SEARCH -> strip(message, Whitespace) = <<>>
      [] state = WAITING_FOR_BUY_DETAILS -> ~ItemsExtracted(message)
      [] state = WAITING_FOR_CREDITS ->
           \/ first_number(message) = <<>>
           \/ int(first_number(message)) <= 0
      [] OTHER -> FALSE

RepromptOf(state) ==
    CASE state = WAITING_FOR_SEARCH -> Text("search_reprompt")
      [] state = WAITING_FOR_BUY_DETAILS -> Text("buy_reprompt")
      [] state = WAITING_FOR_CREDITS -> Text("credits_reprompt")

\* C23: a turn dispatched from one of the waiting states whose message does
\* not hold the expected payload (blank search term; no title or no positive
\* quantity; no integer or an integer <= 0) answers with the re-prompt of
\* that state, leaves the session in that state, and makes no storage write.
C23_UnparseableReprompts ==
    \A p \in {1} :
      (/\ Returned(p)
       /\ turn[p].from_state
             \in {WAITING_FOR_SEARCH, WAITING_FOR_BUY_DETAILS, WAITING_FOR_CREDITS}
       /\ Unparseable(turn[p].from_state, turn[p].message))
      => LET t == turn[p]
         IN  /\ t.response.response = RepromptOf(t.from_state)
             /\ sessions[t.user_id].state = t.from_state
             /\ Len(Writes(call[p])) = 0
             /\ stock = t.pre_stock
             /\ credits = t.pre_credits

\* a message that is no exact command, names a purchase or credits (so it is
\* no search term), and is neither a purchase request (buy/purchase with
\* copy/copies/book) nor a credit request (credit with a number)
Unrecognised(message) ==
    LET lower_msg == lower(message)
    IN  /\ ExactCommand(message)
              \notin {query_command, buy_command, buy_credits_command}
        /\ any_keyword(buy_credit_keywords, lower_msg)
        /\ ~(/\ any_keyword(buy_keywords, lower_msg)
              /\ any_keyword(copy_keywords, lower_msg))
        /\ ~(/\ any_keyword(credit_keywords, lower_msg)
              /\ first_number(message) # <<>>)

\* C24: a turn dispatched from INITIAL whose message is neither an exact
\* command nor a search, purchase or credit request answers with the text
\* listing the valid commands, leaves the session in INITIAL, and makes no
\* storage access.
C24_UnknownCommandHelp ==
    \A p \in {1} :
      (/\ Returned(p)
       /\ turn[p].from_state = INITIAL
       /\ Unrecognised(turn[p].message))
      => LET t == turn[p]
         IN  /\ t.response.success
             /\ t.response.response = Text("help")
             /\ t.response.conversation_step = "initial"
             /\ sessions[t.user_id].state = INITIAL
             /\ call[p] = IdleCall
             /\ t.search = NoSearch
             /\ stock = t.pre_stock
             /\ credits = t.pre_credits

\* reached: "buy z" sent in INITIAL has been answered with the command list
C24_Witness ==
    /\ Returned(1)
    /\ turn[1].from_state = INITIAL
    /\ turn[1].message = <<"b", "u", "y", " ", "z">>
    /\ turn[1].response.response = Text("help")
    /\ sessions[turn[1].user_id].state = INITIAL

\* The request a free-text message makes by itself, as _try_natural_language
\* tells: a search term (no buy, purchase or credit in it, and not blank), a
\* purchase request with its items, a credit request with a positive
\* amount, or none of these.
Carries(message) ==
    LET lower_msg == lower(message)
    IN  IF ExactCommand(message)
             \in {query_command, buy_command, buy_credits_command}
          THEN "none"
        ELSE IF ~any_keyword(buy_credit_keywords, lower_msg)
          THEN IF strip(message, Whitespace) # <<>> THEN "search" ELSE "none"
        ELSE IF /\ any_keyword(buy_keywords, lower_msg)
                /\ any_keyword(copy_keywords, lower_msg)
          THEN IF ItemsExtracted(message) THEN "buy" ELSE "none"
        ELSE IF /\ any_keyword(credit_keywords, lower_msg)
                /\ first_number(message) # <<>>
          THEN IF int(first_number(message)) > 0 THEN "credits" ELSE "none"
        ELSE "none"

\* C25: a turn dispatched from INITIAL whose free-text message carries its
\* payload has run the matching handler on that message in the same turn:
\* the search was made, or buy_book_transaction or add_credits_transaction
\* was called once with what the message holds, and the session is in
\* INITIAL when the turn returns.
C25_FreeTextHandledInSameTurn ==
    \A p \in {1} :
      (/\ Returned(p)
       /\ turn[p].from_state = INITIAL
       /\ Carries(turn[p].message) # "none")
      => LET t    == turn[p]
             c    == call[p]
             kind == Carries(t.message)
         IN  /\ sessions[t.user_id].state = INITIAL
             /\ kind = "search" =>
                   /\ t.search.value # <<>>
                   /\ CallsInTurn(p) = 0
             /\ kind = "buy" =>
                   /\ CallsInTurn(p) = 1
                   /\ c.op = "buy" /\ c.user_id = t.user_id
                   /\ c.book_requests =
                         <<[title |-> parse_buy_request(t.message).book_title,
                            quantity |-> parse_buy_request(t.message).quantity]>>
                   /\ t.search = NoSearch
             /\ kind = "credits" =>
                   /\ CallsInTurn(p) = 1
                   /\ c.op = "add_credits" /\ c.user_id = t.user_id
                   /\ c.amount = int(first_number(t.message))
                   /\ t.search = NoSearch

\* reached: "credit 20" sent in INITIAL has added 20 credits in that turn
C25_Witness ==
    /\ Returned(1)
    /\ turn[1].from_state = INITIAL
    /\ turn[1].message = <<"c", "r", "e", "d", "i", "t", " ", "2", "0">>
    /\ call[1].op = "add_credits"
    /\ call[1].result.success
    /\ credits[turn[1].user_id] = turn[1].pre_credits[turn[1].user_id] + 20
    /\ sessions[turn[1].user_id].state = INITIAL

\* C26: whatever the Intent Classifier does (it raises, answers with text
\* that is no JSON, or answers with JSON that lacks the expected fields), the
\* turn of the graph workflow returns a response that is not an error
\* response and no exception has left the master node.
C26_ClassifierFailureFallsBack ==
    \A p \in Procs :
        ( /\ pc[p] = "t_returned"
          /\ turn[p].graph.answer \in {"raise", "not_json", "not_object", "lacking"} )
        => /\ turn[p].exc = "none"
           /\ turn[p].response.success

\* the record store was unreachable during the turn of handler p: the turn
\* went to the store, and every read returned none and every write failed
Unreachable(p) ==
    \/ turn[p].search.read = "none"
    \/ /\ CallsInTurn(p) = 1
       /\ call[p].io # <<>>
       /\ \A k \in DOMAIN call[p].io : call[p].io[k].outcome # "ok"

\* C27: a turn during which the record store was unreachable returns an
\* error response, and the session's dialogue state at the end of the turn
\* is the state the turn was dispatched from.
C27_StoreUnreachableKeepsState ==
    \A p \in {1} :
      (Returned(p) /\ Unreachable(p))
      => /\ ~turn[p].response.success
         /\ sessions[turn[p].user_id].state = turn[p].from_state

\* every session of the table is stored under its own user id
OwnKey == \A u \in UserIds : sessions[u] # NoSession => sessions[u].user_id = u

\* the lookup step of a message of user u
LookupOf(u) ==
    \E p \in Procs :
        pc[p] = "t_get_session" /\ pc'[p] = "t_add_user" /\ turn[p].user_id = u

\* a session appears in the table only in a lookup for its user id, and is
\* then in INITIAL with an empty turn log; a lookup for a user id that has a
\* session keeps that session
CreatedOnFirstLookup ==
    \A u \in UserIds :
        /\ (sessions[u] = NoSession /\ sessions'[u] # NoSession)
           => /\ LookupOf(u)
              /\ sessions'[u].user_id = u
              /\ sessions'[u].state = INITIAL
              /\ sessions'[u].conversation_history = <<>>
        /\ (sessions[u] # NoSession /\ LookupOf(u))
           => sessions'[u] = [sessions[u] EXCEPT !.last_activity = now]

\* C28: the session table holds at most one session per user id, each under
\* the key equal to its own user id; a session is created only by the first
\* lookup for a user id that has none, and a newly created session is in
\* INITIAL with an empty turn log.
C28_OneSessionPerUser == []OwnKey /\ [][CreatedOnFirstLookup]_vars

\* reached: the lookup of user 1 has just created a session, next to the
\* session of user 2
C28_Witness ==
    /\ pc[1] = "t_add_user" /\ turn[1].user_id = 1 /\ turn[1].idle = -1
    /\ sessions[1] = ChatSession(1)
    /\ sessions[2] # NoSession /\ sessions[2].user_id = 2

\* the step belongs to a turn for user id u
InTurnOf(u) == \E p \in Procs : turn[p].user_id = u

\* a step changes or removes a session only within a turn of its own user
OthersUntouched ==
    \A v \in UserIds : sessions'[v] # sessions[v] => InTurnOf(v)

\* C29 as stated: handling a turn for one user id never changes or removes
\* the session (dialogue state, turn log, last-activity time) of any other
\* user id.
C29_UsersIndependent == [][OthersUntouched]_vars

\* a step changes a session only within a turn of its own user, or it is
\* the lookup step of another user's turn and removes the session, which
\* had been idle for longer than the timeout
OthersUntouchedUnlessExpired ==
    \A v \in UserIds :
        sessions'[v] # sessions[v]
        => \/ InTurnOf(v)
           \/ /\ \E u \in UserIds \ {v} : LookupOf(u)
              /\ sessions'[v] = NoSession
              /\ now - sessions[v].last_activity > SessionTimeout

\* C29, amended: handling a turn for one user id never changes the dialogue
\* state, turn log or last-activity time of another user id's session; it
\* removes another user id's session only in its session lookup and only
\* when that session has been idle for longer than the timeout.
C29_UsersIndependentButEviction == [][OthersUntouchedUnlessExpired]_vars

\* reached: a turn of user 2 has returned while the session of user 1 waits
\* for purchase details, with its turn log
C29_Witness ==
    /\ Returned(1) /\ turn[1].user_id = 2
    /\ sessions[2] # NoSession
    /\ sessions[1].state = WAITING_FOR_BUY_DETAILS
    /\ Len(sessions[1].conversation_history) = 2

\* the user entries of a turn log
UserEntries(history) == SelectSeq(history, LAMBDA e : e.role = "user")

\* C30: when two turns for one user id have overlapped and both have
\* returned, the user's session is in one of the enumerated dialogue states,
\* its turn log holds the user entry of every turn made, none lost and none
\* twice, and the table holds the user's session.
C30_OverlappingTurnsKeepLog ==
    (\A p \in Procs : Returned(p) /\ turn[p].user_id = 2)
    => /\ sessions[2] # NoSession
       /\ sessions[2].state \in {INITIAL, WAITING_FOR_SEARCH,
                                 WAITING_FOR_BUY_DETAILS, WAITING_FOR_CREDITS}
       /\ Len(UserEntries(sessions[2].conversation_history)) = nturns
       /\ \A p \in Procs :
             \E k \in DOMAIN sessions[2].conversation_history :
                 /\ sessions[2].conversation_history[k].role = "user"
                 /\ sessions[2].conversation_history[k].content = turn[p].message

\* the dialogue states a session is ever in
ReachedStates ==
    {INITIAL, WAITING_FOR_SEARCH, WAITING_FOR_BUY_DETAILS, WAITING_FOR_CREDITS}

\* C31: after any sequence of turns every session is in INITIAL,
\* waiting_for_search, waiting_for_buy_details or waiting_for_credits:
\* waiting_for_return_details is never reached, and no message is dispatched
\* to the invalid-state handler, which runs when the state is none of the
\* four.
C31_FourStatesOnly ==
    /\ \A k \in SessionKeys :
          sessions[k] # NoSession => sessions[k].state \in ReachedStates
    /\ \A p \in Procs :
          turn[p].from_state \in ReachedStates \cup {"none"}

\* reached: after two turns one session waits for a credit amount and the
\* other for a search term
C31_Witness ==
    /\ nturns = 2 /\ pc[1] = "t_returned"
    /\ sessions[1].state = WAITING_FOR_CREDITS
    /\ sessions[2].state = WAITING_FOR_SEARCH
    /\ turn[1].from_state = INITIAL

\* a purchase text with no quantity cue: a title and no digit
BareTitle(message) ==
    /\ strip(message, Whitespace) # <<>>
    /\ \A i \in DOMAIN message : ~IsDigit(message[i])

\* C32: a turn dispatched from WAITING_FOR_BUY_DETAILS whose message is a bare
\* title (no quantity cue) is parsed as that title with quantity 1, never 0,
\* and so makes one purchase call for 1 copy of it.
C32_BareTitleBuysOne ==
    \A p \in {1} :
      (/\ Returned(p)
       /\ turn[p].from_state = WAITING_FOR_BUY_DETAILS
       /\ BareTitle(turn[p].message))
      => /\ parse_buy_request(turn[p].message).quantity = 1
         /\ CallsInTurn(p) = 1
         /\ call[p].op = "buy"
         /\ call[p].book_requests =
               <<[title |-> strip(turn[p].message, Whitespace), quantity |-> 1]>>

\* the parser has been applied to the text
ParsedSingle == pc[1] = "parsed_single"
ParsedMultiple == pc[1] = "parsed_multiple"
ParsedText == turn[1].message
ParsedItems == call[1].book_requests

Semicolon == <<";">>
AndWord == <<" ", "a", "n", "d", " ">>
Ampersand == <<" ", "&", " ">>

\* the separator a text is split at: ';' before ' and ' before ' & '
HasSeparator(text) ==
    \E sep \in {Semicolon, AndWord, Ampersand} : IsSubstring(sep, text)

FirstSeparator(text) ==
    IF IsSubstring(Semicolon, text) THEN Semicolon
    ELSE IF IsSubstring(AndWord, text) THEN AndWord
    ELSE Ampersand

\* the segments, each read as a single item, without those that give no
\* title or no positive quantity
SegmentItems(segments) ==
    SelectSeq([k \in DOMAIN segments |-> parse_single_buy_request(segments[k])],
              LAMBDA item : item.title # <<>> /\ item.quantity > 0)

\* C33: when the text holds ';', ' and ' or ' & ', parse_multi returns the
\* single-item readings of the segments of the text split at the first of
\* these (in that order) that occurs in it, without the segments that give an
\* empty title or a non-positive quantity; colon groups and commas in the
\* text do not change that.
C33_SeparatorPrecedence ==
    (ParsedMultiple /\ HasSeparator(ParsedText))
    => ParsedItems = SegmentItems(split(ParsedText, FirstSeparator(ParsedText)))

\* reached: "ab 1 & cd: 2;ab" is split at ';' alone, which gives "ab 1 & cd"
\* twice and "ab" once, where the colon group alone would give "ab 1 & cd"
\* twice and nothing else
C33_Witness ==
    /\ ParsedMultiple
    /\ ParsedText = <<"a", "b", " ", "1", " ", "&", " ", "c", "d", ":", " ", "2",
                      ";", "a", "b">>
    /\ ParsedItems = << [title |-> <<"a", "b", " ", "1", " ", "&", " ", "c", "d">>,
                         quantity |-> 2],
                        [title |-> <<"a", "b">>, quantity |-> 1] >>
    /\ colon_requests(ParsedText) # ParsedItems

\* the comma-separated segments of a text, each without surrounding blanks
CommaSegments(text) ==
    LET segments == split(text, <<",">>)
    IN  [k \in DOMAIN segments |-> strip(segments[k], Whitespace)]

\* comma-separated text with no separator and no colon group
CommaText(text) ==
    /\ IsSubstring(<<",">>, text)
    /\ ~HasSeparator(text)
    /\ colon_findall(text, 1) = <<>>

\* the segment is "<text> <number>"
TitleNumber(segment) == number_match(segment).matched

\* the whole text read as one single item
WholeTextItem(text) == SegmentItems(<<text>>)

\* C34 as stated: for comma-separated text with no separator and no colon
\* group, parse_multi returns several items only if every segment is
\* "<text> <number>"; if any segment is not (a quantity with its unit, or no
\* number at all), it returns the whole text read as one single item.
C34_UnanimousCommaSegments ==
    (ParsedMultiple /\ CommaText(ParsedText))
    => LET segments == CommaSegments(ParsedText)
           unanimous == \A k \in DOMAIN segments : TitleNumber(segments[k])
       IN  /\ Len(ParsedItems) > 1 => unanimous
           /\ ~unanimous => ParsedItems = WholeTextItem(ParsedText)

\* C34, amended: the same for the segments that are not empty; an empty
\* segment (a leading or trailing comma, two commas in a row) is ignored.
C34_UnanimousNonEmptySegments ==
    (ParsedMultiple /\ CommaText(ParsedText))
    => LET segments == SelectSeq(CommaSegments(ParsedText),
                                 LAMBDA segment : segment # <<>>)
           unanimous == \A k \in DOMAIN segments : TitleNumber(segments[k])
       IN  /\ Len(ParsedItems) > 1 => unanimous
           /\ ~unanimous => ParsedItems = WholeTextItem(ParsedText)

\* reached: "ab,2 copies" has given one item, 2 copies of "ab", while
\* "ab 1,ab 1" is a text that gives two items
C34_Witness ==
    /\ ParsedMultiple
    /\ ParsedText = <<"a", "b", ",", "2", " ", "c", "o", "p", "i", "e", "s">>
    /\ CommaText(ParsedText)
    /\ ParsedItems = << [title |-> <<"a", "b">>, quantity |-> 2] >>
    /\ Len(parse_multiple_buy_request(
               <<"a", "b", " ", "1", ",", "a", "b", " ", "1">>)) = 2

\* the copies the lines of a request ask of book b, all lines that resolve to
\* b taken together
AskedOf(reqs, b) ==
    SumQuantity(SelectSeq(reqs, LAMBDA r : Resolve(r.title) = b))

\* C35: a multi-item purchase that exceeds the stock of a book with all its
\* lines for that book together is rejected, and a successful one has
\* removed from every book's stock the sum of the quantities of all lines
\* that resolved to it (two lines for one book included) and debited 20
\* credits per copy removed.
C35_DuplicateLinesAddUp ==
    \A p \in {1} :
        LET c == call[p]
        IN  (Done(p) /\ c.op = "buy_multiple")
            => /\ (\E b \in Books : AskedOf(c.book_requests, b) > c.pre_stock[b])
                     => ~c.result.success
               /\ c.result.success
                     => /\ \A b \in Books :
                              c.pre_stock[b] - stock[b] = AskedOf(c.book_requests, b)
                        /\ c.pre_credits[c.user_id] - credits[c.user_id]
                              = UnitPrice * SumQuantity([b \in Books |->
                                    [quantity |-> c.pre_stock[b] - stock[b]]])

\* the book records the lines of a request resolve to
ResolvedBooks(reqs) == {Resolve(reqs[k].title) : k \in DOMAIN reqs} \ {0}

\* C36: from its start to its return, a purchase call leaves every book
\* record none of its lines resolved to, and every account but the
\* purchasing user's, as they were when the call started, whether it
\* succeeds, is rejected or fails and compensates.
C36_PurchaseFrame ==
    \A p \in {1} :
        LET c == call[p]
        IN  IsPurchase(c)
            => /\ \A b \in Books \ ResolvedBooks(c.book_requests) :
                     stock[b] = c.pre_stock[b]
               /\ \A u \in Accounts \ {c.user_id} :
                     credits[u] = c.pre_credits[u]

\* reached: a purchase of the second book has written its stock, failed to
\* write the balance and written the stock back; the first book and the
\* other account are as before
C36_Witness ==
    /\ Done(1) /\ call[1].op = "buy"
    /\ ResolvedBooks(call[1].book_requests) = {2}
    /\ ~call[1].result.success
    /\ Len(StockWrites(call[1])) = 1 /\ Len(CompWrites(call[1])) = 1
    /\ AllOk(StockWrites(call[1])) /\ AllOk(CompWrites(call[1]))
    /\ call[1].pre_stock[1] # call[1].pre_stock[2]
    /\ stock = call[1].pre_stock
    /\ credits = call[1].pre_credits

\* both handlers' calls are purchases that have returned success
BothSucceeded ==
    \A p \in Procs : Done(p) /\ IsPurchase(call[p]) /\ call[p].result.success

\* every line asks for at least one copy, and no two lines of the request
\* resolve to the same book
DistinctLines(reqs) ==
    /\ \A k \in DOMAIN reqs : reqs[k].quantity > 0
    /\ \A j, k \in DOMAIN reqs :
          j # k => Resolve(reqs[j].title) # Resolve(reqs[k].title)

\* C37: when the purchases of the two users, whose storage accesses
\* interleave in any way, have both returned success, every book both of
\* them bought stands at its initial stock less the quantities of both
\* purchases, and the two together did not buy more than was in stock.
C37_NoLostDecrement ==
    (BothSucceeded /\ \A p \in Procs : DistinctLines(call[p].book_requests))
    => \A b \in ResolvedBooks(call[1].book_requests)
                   \cap ResolvedBooks(call[2].book_requests) :
          LET sold == AskedOf(call[1].book_requests, b)
                         + AskedOf(call[2].book_requests, b)
          IN  /\ sold <= MaxStock
              /\ stock[b] = MaxStock - sold

\* the last entry of a call's access log
LastAccess(c) == c.io[Len(c.io)]

\* this step is handler p's compensating write of book b, and the write went
\* through
Compensates(p, b) ==
    /\ pc[p] \in {"b_rollback", "m_rollback_all"}
    /\ Len(call'[p].io) = Len(call[p].io) + 1
    /\ LastAccess(call'[p]).comp
    /\ LastAccess(call'[p]).target = b
    /\ LastAccess(call'[p]).outcome = "ok"

\* the call read book b when it held the stock another call had written
ReadWrittenBy(c, b, other) ==
    \E j \in DOMAIN c.io, k \in DOMAIN other.io :
        /\ c.io[j].kind = "get_book" /\ c.io[j].target = b
        /\ c.io[j].outcome = "ok"
        /\ other.io[k].kind = "set_qty" /\ ~other.io[k].comp
        /\ other.io[k].target = b /\ other.io[k].outcome = "ok"
        /\ c.io[j].value = other.io[k].value

\* C38: when a purchase that failed on its balance write puts the stock of a
\* book back after the other user's purchase of that book has been made in
\* full (read, stock write and balance write) since the failing purchase's
\* stock write, the other purchase's decrement is still there: the stock is
\* the initial stock less the quantity of the successful purchase.
C38_CommittedDecrementSurvives ==
    [][ \A p \in Procs : \A b \in Books :
          LET q == 3 - p
          IN  (/\ Compensates(p, b)
               /\ Done(q) /\ IsPurchase(call[q]) /\ call[q].result.success
               /\ DistinctLines(call[p].book_requests)
               /\ DistinctLines(call[q].book_requests)
               /\ b \in ResolvedBooks(call[q].book_requests)
               /\ ReadWrittenBy(call[q], b, call[p]))
              => stock'[b] = MaxStock - AskedOf(call[q].book_requests, b) ]_vars

\* C39: while the graph handles one message it runs at most one subordinate
\* node (query, buy or credit): back at the master node the workflow goes to
\* END, so the message starts at most one purchase or credit transaction,
\* whatever the language model answers.
C39_OneSubordinateRun ==
    \A p \in {1} :
        /\ turn[p].graph.hops <= 1
        /\ CallsInTurn(p) <= 1

==========================================================================
